---------------------------- MODULE Spec2Model ----------------------------
(***************************************************************************)
(* Model of claude_history_manager.py: the token counting and the          *)
(* message-token cache of TokenCalculator, the file analysis and the       *)
(* file-analysis cache of ClaudeHistoryGUI, the two-tier concurrent        *)
(* indexer (_load_projects, _load_projects_thread,                         *)
(* _analyze_project_concurrent, _analyze_conversation_file) and the search *)
(* (_search_conversations, _search_in_conversation, the search cache).     *)
(*                                                                         *)
(* The specifications share the state and the operators:                   *)
(*   SpecCalls   cache calls run to completion one at a time;              *)
(*   SpecScan    scan requests and scan threads, each project task run as  *)
(*               one step (its file analyses one after another);           *)
(*   SpecConc    one scan whose file tasks run statement by statement, as  *)
(*               the interpreter may switch threads between statements;    *)
(*   FairConc    SpecConc with weak fairness of every thread's next step;  *)
(*   SpecAnalyze the file tasks of one project over files of varied        *)
(*               contents, each file task run as one step;                 *)
(*   SpecSearch  project selections and searches made one at a time;       *)
(*   SpecPool    the tasks of a scan and of a parallel search taken and    *)
(*               finished by the workers of their pools;                   *)
(*   SpecTokens  calls of count_tokens, _calculate_message_tokens and      *)
(*               get_token_cost_estimate on sample arguments;              *)
(*   SpecStale   one file written and analysed again and again;            *)
(*   SpecDelete  selections, searches and deletions of conversations;      *)
(*   SpecConv    calls of analyze_conversation_tokens on conversations;    *)
(*   SpecRace    the search thread run statement by statement, with        *)
(*               project selections, a vanishing file and a rescan.        *)
(* A dict is a sequence of its keys in insertion order, with the values    *)
(* of the message cache and of the search cache kept beside the keys.  A   *)
(* text is a sequence of characters.                                       *)
(***************************************************************************)
EXTENDS Integers, Sequences, FiniteSets, TLC

\* ------------------------------------------------------------------ bounds
MaxProjects == 2
MaxFiles == 2
MaxMtime == 2
MaxMsgId == 2
MaxScans == 2

\* ------------------------------------------------------- program constants
MsgCacheMax == 500
MsgEvictBatch == 100
FileCacheMax == 100
FileEvictBatch == 20
MaxProjectWorkers == 4
MaxFileWorkers == 2

Projects == 1..MaxProjects
Files == 1..MaxFiles
MsgIds == 1..MaxMsgId
ScanIds == 1..MaxScans

Min(a, b) == IF a < b THEN a ELSE b
Range(s) == {s[i] : i \in DOMAIN s}
Perms(S) == {p \in [1..Cardinality(S) -> S] : \A i, j \in DOMAIN p : i # j => p[i] # p[j]}

\* ------------------------------------------------------------ dict helpers
\* key in d
Has(d, k) == \E i \in DOMAIN d : d[i] = k
\* d[k] = v: a new key goes last, a present key keeps its place
SetItem(d, k) == IF Has(d, k) THEN d ELSE Append(d, k)
\* del d[k] for a present key
DelItem(d, k) == SelectSeq(d, LAMBDA x : x # k)
\* list(d.keys())[:n]
FirstKeys(d, n) == SubSeq(d, 1, Min(n, Len(d)))
\* for key in keys: del d[key], run without interruption
DelAll(d, keys) == LET gone == Range(keys) IN SelectSeq(d, LAMBDA x : x \notin gone)
\* entries left in a cache by earlier work of the session, oldest first
OldMsgKeys(n) == [i \in 1..n |-> <<"old", i>>]
OldFileKeys(n) == [i \in 1..n |-> <<0 - i, 0>>]

\* ------------------------------------------------- message-token cache ops
\* len(self._message_token_cache) > 500
MsgCacheOverflow(cache) == Len(cache) > MsgCacheMax
\* list(self._message_token_cache.keys())[:100]
MsgKeysToRemove(cache) == FirstKeys(cache, MsgEvictBatch)
\* the miss path of count_message_tokens after the counter: insert, then evict
MsgCacheStore(cache, k) ==
    LET ins == SetItem(cache, k)
    IN  IF MsgCacheOverflow(ins) THEN DelAll(ins, MsgKeysToRemove(ins)) ELSE ins

\* ------------------------------------------------- file-analysis cache ops
\* mutant: the capacity test written with > for >=
FileCacheFull_Strict(cache) == Len(cache) > FileCacheMax
\* len(self._file_analysis_cache) >= self._file_cache_max_size
FileCacheFull(cache) == Len(cache) >= FileCacheMax
\* list(self._file_analysis_cache.keys())[:20]
FileKeysToRemove(cache) == FirstKeys(cache, FileEvictBatch)
\* _cache_file_analysis run without interruption: evict, then insert
cache_file_analysis(cache, k) ==
    LET kept == IF FileCacheFull(cache) THEN DelAll(cache, FileKeysToRemove(cache)) ELSE cache
    IN  SetItem(kept, k)


\* -------------------------------------------------------------------- text
\* a text is a sequence of characters; an optional text is <<>> for None and
\* <<t>> for the text t
LoneSurrogate == "U+D800"
Letters == {"a", "b", "e", "h", "l", "n", "o", "N"}
Digits == {"7"}
Ideographs == {"U+4E2D"}
Spaces == {" "}
\* a character that \w matches and that is neither an ASCII letter, nor an
\* ASCII digit, nor an ideograph of U+4E00..U+9FFF: the underscore
WordOthers == {"_"}
Max(a, b) == IF a > b THEN a ELSE b
\* not text.strip()
IsBlank(t) == \A i \in DOMAIN t : t[i] \in Spaces
\* text.strip(chars)
StripChars(t, chars) ==
    IF \A i \in DOMAIN t : t[i] \in chars THEN <<>>
    ELSE LET a == CHOOSE i \in DOMAIN t :
                      t[i] \notin chars /\ \A j \in 1..(i - 1) : t[j] \in chars
             b == CHOOSE i \in DOMAIN t :
                      t[i] \notin chars /\ \A j \in (i + 1)..Len(t) : t[j] \in chars
         IN  SubSeq(t, a, b)
CountIn(t, chars) == Cardinality({i \in DOMAIN t : t[i] \in chars})
\* the characters [^\w\s\u4e00-\u9fff] matches (line 90)
IsPunct(c) == c \notin Letters \cup Digits \cup Ideographs \cup WordOthers \cup Spaces
\* mutant: the truncated total is returned as it is
AtLeastOne_Truncated(n) == n
\* max(1, int(total_tokens)) (line 107)
AtLeastOne(n) == Max(1, n)
\* space_chars + punct_chars (lines 89-90, 103)
OtherChars(t) == CountIn(t, Spaces) + Cardinality({i \in DOMAIN t : IsPunct(t[i])})
\* _estimate_tokens: 1.8 per ideograph, 1/4 per letter, 1/2 per digit, 1/5
\* per space or punctuation character, truncated, at least 1.  The floating
\* point sum of the four terms truncates to the same integer as the exact
\* sum in twentieths
estimate_tokens(t) ==
    IF t = <<>> THEN 0
    ELSE AtLeastOne((36 * CountIn(t, Ideographs) + 5 * CountIn(t, Letters)
                         + 10 * CountIn(t, Digits) + 4 * OtherChars(t)) \div 20)
\* what self.encoder.encode(text) does: it raises, <<>>, or it returns n
\* tokens, <<n>>
EncoderRaises == <<>>
\* mutant: the failure of the encoder is swallowed and nothing is counted
count_tokens_with_NoFallback(precise, enc, t) ==
    IF IsBlank(t) THEN 0
    ELSE IF precise /\ enc # EncoderRaises THEN enc[1]
    ELSE IF precise THEN 0
    ELSE estimate_tokens(StripChars(t, Spaces))
\* count_tokens: enc is the outcome of the encoder for the stripped text
count_tokens_with(precise, enc, t) ==
    IF IsBlank(t) THEN 0
    ELSE IF precise /\ enc # EncoderRaises THEN enc[1]
    ELSE estimate_tokens(StripChars(t, Spaces))
\* count_tokens with no encoder loaded (precise_mode False)
count_tokens(t) == count_tokens_with(FALSE, EncoderRaises, t)

\* ----------------------------------------------------------- lines, records
ImageTokens == 85
MessageOverhead == 10
PreviewMax == 100
\* a content block: btype "text", "image", "other", or "nonobj" for an item
\* of the content list that is not a JSON object
Block(btype, text) == [btype |-> btype, text |-> text]
\* a line of a log file.  kind: "blank", "bad" (json.loads raises), "nonobj"
\* (valid JSON that is not an object) or "obj"; type: the 'type' of the
\* object; shape: "str" when the content is a string (text holds it, as it
\* holds the summary of a summary record), "list" when it is a list of
\* blocks; ts: the timestamp, 0 when absent
Line(kind, type, shape, text, blocks, ts) ==
    [kind |-> kind, type |-> type, shape |-> shape, text |-> text, blocks |-> blocks, ts |-> ts]
\* a user record whose content is the string of n letters
PlainMessage(n) == Line("obj", "user", "str", [i \in 1..n |-> "a"], <<>>, 0)
\* item.get('type') raises AttributeError on an item that is not an object
HasNonObjectBlock(m) == \E i \in DOMAIN m.blocks : m.blocks[i].btype = "nonobj"
\* content_str.encode('utf-8') succeeds: no lone surrogate in the message
Encodable(m) ==
    /\ LoneSurrogate \notin Range(m.text)
    /\ \A i \in DOMAIN m.blocks : LoneSurrogate \notin Range(m.blocks[i].text)
\* _create_message_cache_key: the truncated md5 digest of the serialized
\* message (taken as free of collisions), or, when the serialization cannot
\* be encoded, the type and the timestamp
MessageCacheKey(m) ==
    IF Encodable(m) THEN <<"md5", m>> ELSE <<"fallback", m.type, m.ts>>

BlockTokens(b) ==
    IF b.btype = "text" THEN count_tokens(b.text)
    ELSE IF b.btype = "image" THEN ImageTokens
    ELSE 0
RECURSIVE SumBlockTokens(_)
SumBlockTokens(blocks) ==
    IF blocks = <<>> THEN 0 ELSE BlockTokens(Head(blocks)) + SumBlockTokens(Tail(blocks))
\* _calculate_message_tokens: ok FALSE when it raises
calculate_message_tokens(m) ==
    IF m.type = "summary"
    THEN [ok |-> TRUE, n |-> count_tokens(m.text) + MessageOverhead]
    ELSE IF m.type \in {"user", "assistant"}
    THEN IF m.shape = "str"
         THEN [ok |-> TRUE, n |-> count_tokens(m.text) + MessageOverhead]
         ELSE IF HasNonObjectBlock(m)
         THEN [ok |-> FALSE, n |-> 0]
         ELSE [ok |-> TRUE, n |-> SumBlockTokens(m.blocks) + MessageOverhead]
    ELSE [ok |-> TRUE, n |-> MessageOverhead]

\* content[:100] + '...' if len(content) > 100 else content
Truncate(t) ==
    IF Len(t) > PreviewMax THEN SubSeq(t, 1, PreviewMax) \o <<".", ".", ".">> ELSE t
\* lines 1091-1096: the preview a user record gives; <<>> when it gives none
PreviewOf(m) ==
    IF m.shape = "str" THEN <<Truncate(m.text)>>
    ELSE IF m.blocks # <<>> /\ m.blocks[1].btype = "text" THEN <<Truncate(m.blocks[1].text)>>
    ELSE <<>>
\* lines 1076-1111: the pass over the lines.  acc.ok turns FALSE when a line
\* raises anything but JSONDecodeError
NoLinesRead ==
    [ok |-> TRUE, parsed |-> <<>>, message_count |-> 0, first_user_msg |-> <<>>,
     summary |-> <<>>, last_timestamp |-> 0]
ReadLine(acc, l) ==
    IF l.kind \in {"blank", "bad"} THEN acc
    ELSE IF l.kind = "nonobj" THEN [acc EXCEPT !.ok = FALSE]
    ELSE IF /\ l.type = "user" /\ acc.first_user_msg = <<>>
            /\ l.shape = "list" /\ l.blocks # <<>> /\ l.blocks[1].btype = "nonobj"
    THEN [acc EXCEPT !.ok = FALSE]
    ELSE [acc EXCEPT
            !.parsed = Append(@, l),
            !.message_count = IF l.type \in {"user", "assistant"} THEN @ + 1 ELSE @,
            !.first_user_msg = IF l.type = "user" /\ @ = <<>> THEN PreviewOf(l) ELSE @,
            !.summary = IF l.type = "summary" THEN <<StripChars(l.text, {"\""})>> ELSE @,
            !.last_timestamp = IF l.ts # 0 THEN l.ts ELSE @]
RECURSIVE ReadLines(_, _)
ReadLines(acc, lines) ==
    IF lines = <<>> \/ ~acc.ok THEN acc
    ELSE ReadLines(ReadLine(acc, Head(lines)), Tail(lines))
\* conversation_data when the pass over the lines raises nothing
ParsedRecords(lines) == ReadLines(NoLinesRead, lines).parsed


\* ------------------------------------------------------------------- state
VARIABLES
    rootExists,          \* self.projects_path.exists() would answer TRUE
    projectDirs,         \* the sub-directories of the root, as iterdir yields them
    fileDir,             \* the project directory of each .jsonl file
    fileMtime,           \* stat().st_mtime of each file
    fileOk,              \* the file can be stat-ed, opened and read
    fileLines,           \* the lines of each file
    hasMsgCache,         \* hasattr(self, '_message_token_cache')
    message_token_cache, \* the keys of TokenCalculator._message_token_cache
    message_token_value, \* the token count stored under each of its keys
    cache_hits,          \* TokenCalculator.cache_hits
    cache_misses,        \* TokenCalculator.cache_misses
    file_analysis_cache, \* ClaudeHistoryGUI._file_analysis_cache
    projects_data,       \* ClaudeHistoryGUI.projects_data, in insertion order
    project_combo,       \* the project list shown and the project selected
    scan,                \* the scan requests and their threads
    ptask,               \* the project tasks of each scan
    ftask,               \* the file tasks
    analysis,            \* the record the last analysis of each file returned
    current_project,     \* ClaudeHistoryGUI.current_project, <<>> for None
    current_conversations, \* ClaudeHistoryGUI.current_conversations
    filtered_conversations, \* ClaudeHistoryGUI.filtered_conversations
    search_cache,        \* the keys of ClaudeHistoryGUI._search_cache
    search_value,        \* the result list stored under each of its keys
    search,              \* the search request and its thread
    precise_mode,        \* TokenCalculator.precise_mode, with the encoder loaded
    calc                 \* the last call of a method of TokenCalculator

envVars == <<rootExists, projectDirs, fileDir, fileMtime, fileOk, fileLines>>
tokVars == <<hasMsgCache, message_token_cache, message_token_value, cache_hits, cache_misses>>
vars == <<rootExists, projectDirs, fileDir, fileMtime, fileOk, fileLines,
          hasMsgCache, message_token_cache, message_token_value, cache_hits, cache_misses,
          file_analysis_cache, projects_data, project_combo, scan, ptask, ftask,
          analysis, current_project, current_conversations, filtered_conversations,
          search_cache, search_value, search, precise_mode, calc>>
calcVars == <<precise_mode, calc>>
selVars == <<current_project, current_conversations, filtered_conversations>>
searchVars == <<search_cache, search_value, search>>

\* ---------------------------------------------------------------- records
\* the ConversationRecord of file f as the index identifies it: its path and
\* its modification time
ConversationRecord(f) == [file_path |-> f, modified_time |-> fileMtime[f]]
\* f"{file_path}:{mtime}"
FileCacheKey(f) == <<f, fileMtime[f]>>
\* project_dir.glob("*.jsonl") as a set
JsonlFiles(p) == {f \in DOMAIN fileDir : fileDir[f] = p}

\* conversations.sort(key=modified_time, reverse=True): a stable sort; the
\* element that came last goes behind every element that is not older
RECURSIVE SortByMtimeDesc(_)
\* mutant: the sort left out, the records stay in completion order
InsertByMtime_Unsorted(x, s) == Append(s, x)
InsertByMtime(x, s) ==
    LET n == Cardinality({i \in DOMAIN s : s[i].modified_time >= x.modified_time})
    IN  SubSeq(s, 1, n) \o <<x>> \o SubSeq(s, n + 1, Len(s))
SortByMtimeDesc(s) ==
    IF s = <<>> THEN <<>>
    ELSE InsertByMtime(s[Len(s)], SortByMtimeDesc(SubSeq(s, 1, Len(s) - 1)))

\* projects_data[name] = conversations
DictSet(d, name, convs) ==
    IF \E i \in DOMAIN d : d[i].name = name
    THEN [i \in DOMAIN d |-> IF d[i].name = name THEN [name |-> name, convs |-> convs] ELSE d[i]]
    ELSE Append(d, [name |-> name, convs |-> convs])
\* list(self.projects_data.keys())
DictKeys(d) == [i \in DOMAIN d |-> d[i].name]

\* ------------------------------------------- calls run without interruption
\* the state a call reads and writes
World == [has |-> hasMsgCache, msg |-> message_token_cache, val |-> message_token_value,
          hits |-> cache_hits, misses |-> cache_misses, fc |-> file_analysis_cache]
\* a dict with no entry
EmptyDict == [k \in {} |-> 0]
\* the values of the dict after d[k] = n and the removals that left `keys`
ValStore(val, keys, k, n) == [x \in Range(keys) |-> IF x = k THEN n ELSE val[x]]
\* the values the entries of earlier work hold
PriorValues(keys) ==
    [x \in Range(keys) |-> IF x[1] = "md5" THEN calculate_message_tokens(x[2]).n
                           ELSE MessageOverhead]

\* count_message_tokens(message_data) run to completion: the state after it,
\* ok FALSE when it raises, and the count it returns.  k is the key of the
\* message and c what _calculate_message_tokens gives for it
CountWithKey(w, k, c) ==
    IF w.has /\ Has(w.msg, k)
    THEN [w |-> [w EXCEPT !.hits = @ + 1], ok |-> TRUE, n |-> w.val[k]]
    ELSE LET w1 == [w EXCEPT !.has = TRUE, !.misses = @ + 1,
                             !.msg = IF w.has THEN @ ELSE <<>>,
                             !.val = IF w.has THEN @ ELSE EmptyDict]
             kept == MsgCacheStore(w1.msg, k)
         IN  IF ~c.ok THEN [w |-> w1, ok |-> FALSE, n |-> 0]
             ELSE [w |-> [w1 EXCEPT !.msg = kept, !.val = ValStore(w1.val, kept, k, c.n)],
                   ok |-> TRUE, n |-> c.n]
count_message_tokens(w, m) == CountWithKey(w, MessageCacheKey(m), calculate_message_tokens(m))

\* analyze_conversation_tokens: count_message_tokens for every record in
\* order, the totals by type; ok FALSE when a count raises
NoTokens(w) ==
    [w |-> w, ok |-> TRUE, total_tokens |-> 0, user_tokens |-> 0, assistant_tokens |-> 0,
     summary_tokens |-> 0, message_count |-> 0]
\* mutant: only the user and assistant records are counted
TokenStep_Typed(r, m, c) ==
    IF ~c.ok THEN [r EXCEPT !.w = c.w, !.ok = FALSE]
    ELSE [r EXCEPT
            !.w = c.w,
            !.total_tokens = @ + c.n,
            !.message_count = IF m.type \in {"user", "assistant"} THEN @ + 1 ELSE @,
            !.user_tokens = IF m.type = "user" THEN @ + c.n ELSE @,
            !.assistant_tokens = IF m.type = "assistant" THEN @ + c.n ELSE @,
            !.summary_tokens = IF m.type = "summary" THEN @ + c.n ELSE @]
\* one turn of the loop of lines 199-210, c the count of record m
TokenStep(r, m, c) ==
    IF ~c.ok THEN [r EXCEPT !.w = c.w, !.ok = FALSE]
    ELSE [r EXCEPT
            !.w = c.w,
            !.total_tokens = @ + c.n,
            !.message_count = @ + 1,
            !.user_tokens = IF m.type = "user" THEN @ + c.n ELSE @,
            !.assistant_tokens = IF m.type = "assistant" THEN @ + c.n ELSE @,
            !.summary_tokens = IF m.type = "summary" THEN @ + c.n ELSE @]
RECURSIVE TokenLoop(_, _)
TokenLoop(r, msgs) ==
    IF msgs = <<>> \/ ~r.ok THEN r
    ELSE TokenLoop(TokenStep(r, Head(msgs), count_message_tokens(r.w, Head(msgs))), Tail(msgs))
analyze_conversation_tokens(w, msgs) == TokenLoop(NoTokens(w), msgs)

\* lines 1113-1130: the record built from the pass over the lines rd and the
\* token analysis ta
BuildRecord(f, rd, ta) ==
    IF ~ta.ok THEN [w |-> ta.w, result |-> <<>>]
    ELSE [w |-> ta.w,
          result |-> <<[file_path |-> f, modified_time |-> fileMtime[f],
                        message_count |-> rd.message_count,
                        summary |-> rd.summary,
                        first_user_msg |-> rd.first_user_msg,
                        last_timestamp |-> rd.last_timestamp,
                        total_tokens |-> ta.total_tokens,
                        token_analysis |-> [total_tokens |-> ta.total_tokens,
                                            user_tokens |-> ta.user_tokens,
                                            assistant_tokens |-> ta.assistant_tokens,
                                            summary_tokens |-> ta.summary_tokens,
                                            message_count |-> ta.message_count]]>>]
\* lines 1113-1134 after the pass over the lines rd
AnalyzeRead(w, f, rd) ==
    IF ~rd.ok THEN [w |-> w, result |-> <<>>]
    ELSE BuildRecord(f, rd, analyze_conversation_tokens(w, rd.parsed))
\* _perform_file_analysis(file_path, stat) run to completion: the state after
\* it and the record it returns, <<>> for None
perform_file_analysis(w, f) == AnalyzeRead(w, f, ReadLines(NoLinesRead, fileLines[f]))

\* lines 1053-1057: the result r of the analysis is cached and returned, as
\* the index holds it
CacheAndReturn(f, r) ==
    IF r.result = <<>> THEN r
    ELSE [w |-> [r.w EXCEPT !.fc = cache_file_analysis(r.w.fc, FileCacheKey(f))],
          result |-> <<ConversationRecord(f)>>]
\* _analyze_conversation_file(file_path) run to completion: the state after
\* it and its result as the index holds it, <<>> for None
analyze_conversation_file(w, f) ==
    IF ~fileOk[f] THEN [w |-> w, result |-> <<>>]
    ELSE IF Has(w.fc, FileCacheKey(f))
    THEN [w |-> w, result |-> <<ConversationRecord(f)>>]
    ELSE CacheAndReturn(f, perform_file_analysis(w, f))

\* the file tasks of one project finishing one after another in `order`
RECURSIVE AnalyzeInOrder(_, _, _)
\* lines 981-986: the result r of a file task is appended
AppendResult(r, rest, convs) == AnalyzeInOrder(r.w, rest, convs \o r.result)
AnalyzeInOrder(w, order, convs) ==
    IF order = <<>> THEN [w |-> w, convs |-> convs]
    ELSE AppendResult(analyze_conversation_file(w, Head(order)), Tail(order), convs)

\* lines 990-992: the sort of the collected records r.convs and the return
SortAndReturn(r) == [w |-> r.w, convs |-> SortByMtimeDesc(r.convs), arrived |-> r.convs]
\* _analyze_project_concurrent(project_dir) with its file tasks finishing in
\* `order`: the state after it and the sorted record list
analyze_project_concurrent(w, order) == SortAndReturn(AnalyzeInOrder(w, order, <<>>))

\* the state a call leaves in w becomes the state of the program
WorldBecomes(w) ==
    /\ hasMsgCache' = w.has
    /\ message_token_cache' = w.msg
    /\ message_token_value' = w.val
    /\ cache_hits' = w.hits
    /\ cache_misses' = w.misses
    /\ file_analysis_cache' = w.fc

\* ------------------------------------------------------------ initial state
\* the caches as earlier work of the session may have left them: not yet
\* created, or filled to just below or exactly their capacity
PriorFill == {<<0, 0>>, <<MsgCacheMax, FileCacheMax>>}
\* the directory listings iterdir may yield: every order of every set of projects
DirListings == UNION {Perms(S) : S \in SUBSET Projects}
\* prev: the index when the scan was requested; solo: no other scan was
\* running then
NoScan == [pc |-> "none", prev |-> <<>>, solo |-> TRUE, posted |-> "none"]
\* arrived: the records in the order the as_completed loop appended them
NoProjectTask == [pc |-> "none", convs |-> <<>>, arrived |-> <<>>]
NoFileTask == [pc |-> "none", i |-> 0, keys |-> <<>>, reg |-> 0, result |-> <<>>]
\* tiktoken is not installed (lines 47-50); no method has been called
NoCall == [op |-> "none"]
NoCalc == precise_mode = FALSE /\ calc = NoCall
NoSearch == [pc |-> "none"]

InitProgram ==
    /\ rootExists = TRUE
    /\ projectDirs \in DirListings
    /\ fileDir \in [Files -> Projects]
    /\ fileOk \in [Files -> BOOLEAN]
    /\ \E fill \in PriorFill :
          /\ hasMsgCache = (fill[1] > 0)
          /\ message_token_cache = OldMsgKeys(fill[1])
          /\ message_token_value = PriorValues(OldMsgKeys(fill[1]))
          /\ cache_misses = fill[1]
          /\ file_analysis_cache = OldFileKeys(fill[2])
    /\ cache_hits = 0
    /\ projects_data = <<>>
    /\ project_combo = [values |-> <<>>, sel |-> 0]
    /\ scan = [s \in ScanIds |-> NoScan]
    /\ ptask = [s \in ScanIds |-> [p \in Projects |-> NoProjectTask]]
    /\ ftask = [f \in Files |-> NoFileTask]
    /\ analysis = <<>>
    /\ current_project = <<>>
    /\ current_conversations = <<>>
    /\ filtered_conversations = <<>>
    /\ search_cache = <<>>
    /\ search_value = EmptyDict
    /\ search = NoSearch
    /\ NoCalc

InitScan ==
    /\ InitProgram
    /\ fileMtime = [f \in Files |-> ((f - 1) % MaxMtime) + 1]
    /\ fileLines = [f \in Files |-> <<PlainMessage(1), PlainMessage(((f - 1) % MaxMsgId) + 1)>>]

\* ------------------------------------------------ the scan (SpecScan steps)
Running == {"start", "enum", "collect"}
Ended == {"ready", "failed", "rejected"}

\* _load_projects: refresh, F5, set-path, delete recovery, and the constructor
load_projects(s) ==
    /\ scan[s].pc = "none"
    /\ \A t \in ScanIds : t < s => scan[t].pc # "none"
    /\ scan' = [scan EXCEPT ![s] = [pc |-> IF rootExists THEN "start" ELSE "rejected",
                                    prev |-> projects_data,
                                    solo |-> \A t \in ScanIds : scan[t].pc \notin Running,
                                    posted |-> "none"]]
    /\ UNCHANGED <<envVars, tokVars, file_analysis_cache, projects_data, project_combo,
                   ptask, ftask>>
    /\ UNCHANGED <<analysis, selVars, searchVars, calcVars>>

\* _load_projects_thread, line 907: self.projects_data = {}
ScanClear(s) ==
    /\ scan[s].pc = "start"
    /\ projects_data' = <<>>
    /\ scan' = [scan EXCEPT ![s].pc = "enum"]
    /\ UNCHANGED <<envVars, tokVars, file_analysis_cache, project_combo, ptask, ftask>>
    /\ UNCHANGED <<analysis, selVars, searchVars, calcVars>>

\* lines 911-926: iterdir, the early return, the submission of the project tasks
ScanEnum(s) ==
    /\ scan[s].pc = "enum"
    /\ IF ~rootExists
       THEN /\ scan' = [scan EXCEPT ![s].pc = "failed", ![s].posted = "error"]
            /\ UNCHANGED ptask
       ELSE IF projectDirs = <<>>
       THEN /\ scan' = [scan EXCEPT ![s].pc = "ready", ![s].posted = "update_ui"]
            /\ UNCHANGED ptask
       ELSE /\ scan' = [scan EXCEPT ![s].pc = "collect"]
            /\ ptask' = [ptask EXCEPT ![s] = [p \in Projects |->
                            IF p \in Range(projectDirs)
                            THEN [NoProjectTask EXCEPT !.pc = "queued"]
                            ELSE NoProjectTask]]
    /\ UNCHANGED <<envVars, tokVars, file_analysis_cache, projects_data, project_combo, ftask>>
    /\ UNCHANGED <<analysis, selVars, searchVars, calcVars>>

\* the project task returns r
ProjectDone(s, p, r) ==
    /\ WorldBecomes(r.w)
    /\ ptask' = [ptask EXCEPT ![s][p] = [pc |-> "done", convs |-> r.convs,
                                          arrived |-> r.arrived]]
\* a project task run as one step, its file tasks finishing in some order
ProjectRun(s, p) ==
    /\ ptask[s][p].pc = "queued"
    /\ \E order \in Perms(JsonlFiles(p)) :
          ProjectDone(s, p, analyze_project_concurrent(World, order))
    /\ UNCHANGED <<envVars, projects_data, project_combo, scan, ftask>>
    /\ UNCHANGED <<analysis, selVars, searchVars, calcVars>>

\* mutant: the project is stored whatever its record list holds
StoreProject_Always(d, name, convs) == DictSet(d, name, convs)
\* lines 935-936: if conversations: self.projects_data[name] = conversations
StoreProject(d, name, convs) == IF convs # <<>> THEN DictSet(d, name, convs) ELSE d
\* lines 931-937: one turn of the as_completed loop
ScanCollect(s, p) ==
    /\ scan[s].pc = "collect"
    /\ ptask[s][p].pc = "done"
    /\ ptask' = [ptask EXCEPT ![s][p].pc = "collected"]
    /\ projects_data' = StoreProject(projects_data, p, ptask[s][p].convs)
    /\ UNCHANGED <<envVars, tokVars, file_analysis_cache, project_combo, scan, ftask>>
    /\ UNCHANGED <<analysis, selVars, searchVars, calcVars>>

\* lines 948-952: every project collected, the UI update is posted
ScanFinish(s) ==
    /\ scan[s].pc = "collect"
    /\ \A p \in Projects : ptask[s][p].pc \in {"none", "collected"}
    /\ scan' = [scan EXCEPT ![s].pc = "ready", ![s].posted = "update_ui_with_stats"]
    /\ UNCHANGED <<envVars, tokVars, file_analysis_cache, projects_data, project_combo,
                   ptask, ftask>>
    /\ UNCHANGED <<analysis, selVars, searchVars, calcVars>>

\* _update_projects_ui_with_stats / _update_projects_ui, run by the UI thread
update_projects_ui(s) ==
    /\ scan[s].posted \in {"update_ui", "update_ui_with_stats"}
    /\ project_combo' = [values |-> DictKeys(projects_data),
                         sel |-> IF projects_data # <<>> THEN projects_data[1].name
                                 ELSE project_combo.sel]
    /\ scan' = [scan EXCEPT ![s].posted = "shown"]
    \* _on_project_select for the project that was set
    /\ IF projects_data # <<>>
       THEN /\ current_project' = <<projects_data[1].name>>
            /\ current_conversations' = projects_data[1].convs
            /\ filtered_conversations' = projects_data[1].convs
       ELSE UNCHANGED selVars
    /\ UNCHANGED <<envVars, tokVars, file_analysis_cache, projects_data, ptask, ftask>>
    /\ UNCHANGED <<analysis, searchVars, calcVars>>

\* the root directory is removed or restored by the user
RootChange ==
    /\ rootExists' = ~rootExists
    /\ UNCHANGED <<projectDirs, fileDir, fileMtime, fileOk, fileLines, tokVars,
                   file_analysis_cache, projects_data, project_combo, scan, ptask, ftask>>
    /\ UNCHANGED <<analysis, selVars, searchVars, calcVars>>

NextScan ==
    \/ \E s \in ScanIds : load_projects(s)
    \/ \E s \in ScanIds : ScanClear(s)
    \/ \E s \in ScanIds : ScanEnum(s)
    \/ \E s \in ScanIds, p \in Projects : ProjectRun(s, p)
    \/ \E s \in ScanIds, p \in Projects : ScanCollect(s, p)
    \/ \E s \in ScanIds : ScanFinish(s)
    \/ \E s \in ScanIds : update_projects_ui(s)
    \/ RootChange

SpecScan == InitScan /\ [][NextScan]_vars

\* --------------------------------------- calls one at a time (SpecCalls)
MaxHits == 2

InitCalls ==
    /\ rootExists = TRUE
    /\ projectDirs = <<>>
    /\ fileDir = [f \in Files |-> 1]
    /\ fileOk \in [Files -> BOOLEAN]
    /\ fileMtime = [f \in Files |-> 1]
    /\ fileLines \in [Files -> {<<>>, <<PlainMessage(1), PlainMessage(MaxMsgId)>>}]
    /\ \E fill \in PriorFill \cup {<<MsgCacheMax - 1, FileCacheMax - 1>>} :
          /\ hasMsgCache = (fill[1] > 0)
          /\ message_token_cache = OldMsgKeys(fill[1])
          /\ message_token_value = PriorValues(OldMsgKeys(fill[1]))
          /\ cache_misses = fill[1]
          /\ file_analysis_cache = OldFileKeys(fill[2])
    /\ cache_hits = 0
    /\ projects_data = <<>>
    /\ project_combo = [values |-> <<>>, sel |-> 0]
    /\ scan = [s \in ScanIds |-> NoScan]
    /\ ptask = [s \in ScanIds |-> [p \in Projects |-> NoProjectTask]]
    /\ ftask = [f \in Files |-> NoFileTask]
    /\ analysis = <<>>
    /\ current_project = <<>>
    /\ current_conversations = <<>>
    /\ filtered_conversations = <<>>
    /\ search_cache = <<>>
    /\ search_value = EmptyDict
    /\ search = NoSearch
    /\ NoCalc

\* count_message_tokens(message_data) called by the export of a conversation
CallCountMessageTokens(m) ==
    /\ cache_hits < MaxHits
    /\ WorldBecomes(count_message_tokens(World, PlainMessage(m)).w)
    /\ UNCHANGED <<envVars, projects_data, project_combo, scan, ptask, ftask>>
    /\ UNCHANGED <<analysis, selVars, searchVars, calcVars>>

\* _analyze_conversation_file(file_path) called and run to completion
CallAnalyzeConversationFile(f) ==
    /\ cache_hits < MaxHits
    /\ WorldBecomes(analyze_conversation_file(World, f).w)
    /\ UNCHANGED <<envVars, projects_data, project_combo, scan, ptask, ftask>>
    /\ UNCHANGED <<analysis, selVars, searchVars, calcVars>>

\* the file is written again: a later modification time
TouchFile(f) ==
    /\ fileMtime[f] < MaxMtime
    /\ fileMtime' = [fileMtime EXCEPT ![f] = @ + 1]
    /\ UNCHANGED <<rootExists, projectDirs, fileDir, fileOk, fileLines, tokVars,
                   file_analysis_cache, projects_data, project_combo, scan, ptask, ftask>>
    /\ UNCHANGED <<analysis, selVars, searchVars, calcVars>>

NextCalls ==
    \/ \E m \in MsgIds : CallCountMessageTokens(m)
    \/ \E f \in Files : CallAnalyzeConversationFile(f)
    \/ \E f \in Files : TouchFile(f)

SpecCalls == InitCalls /\ [][NextCalls]_vars

\* C1: after any sequence of count_message_tokens and
\* _analyze_conversation_file calls run one at a time, the message-token cache
\* holds at most 500 entries and the file-analysis cache at most 100.
C1_CachesWithinCapacity ==
    /\ Len(message_token_cache) <= MsgCacheMax
    /\ Len(file_analysis_cache) <= FileCacheMax

\* C1 witness: both caches have overflowed and evicted their batch, and a
\* further entry has been stored in each after the eviction
C1_Witness ==
    /\ Len(message_token_cache) = MsgCacheMax - MsgEvictBatch + 2
    /\ Len(file_analysis_cache) = FileCacheMax - FileEvictBatch + 2


\* ----------------------------- one scan, statement by statement (SpecConc)
\* the caches before the scan, as earlier scans and exports of the session
\* may have left them.  Both empty; or the file cache one entry below
\* capacity, at capacity, or at capacity with the key of file 1 the oldest
\* entry, the message cache then holding the messages of the files; or the
\* message cache one entry below capacity, at capacity, or at capacity with
\* the key of message 1 the oldest entry
AllMsgKeys == [i \in 1..MaxMsgId |-> MessageCacheKey(PlainMessage(i))]
PriorCaches ==
    {[msg |-> <<>>, fc |-> <<>>]}
    \cup {[msg |-> AllMsgKeys, fc |-> OldFileKeys(n)] : n \in {FileCacheMax - 1, FileCacheMax}}
    \cup {[msg |-> AllMsgKeys, fc |-> <<FileCacheKey(1)>> \o OldFileKeys(FileCacheMax - 1)]}
    \cup {[msg |-> OldMsgKeys(n), fc |-> <<>>] : n \in {MsgCacheMax - 1, MsgCacheMax}}
    \cup {[msg |-> <<MessageCacheKey(PlainMessage(1))>> \o OldMsgKeys(MsgCacheMax - 1), fc |-> <<>>]}

\* the files of the scan: in one project with equal or with different
\* modification times, or spread over the projects
Layouts ==
    {[dir |-> [f \in Files |-> 1], mtime |-> [f \in Files |-> 1]],
     [dir |-> [f \in Files |-> 1], mtime |-> [f \in Files |-> Min(f, MaxMtime)]],
     [dir |-> [f \in Files |-> Min(f, MaxProjects)], mtime |-> [f \in Files |-> 1]]}

InitConc ==
    /\ rootExists = TRUE
    /\ projectDirs \in {<<>>, [i \in 1..MaxProjects |-> i]}
    /\ \E l \in Layouts : fileDir = l.dir /\ fileMtime = l.mtime
    /\ fileOk \in [Files -> BOOLEAN]
    /\ fileLines = [f \in Files |-> [i \in 1..Min(f, MaxMsgId) |-> PlainMessage(i)]]
    /\ \E c \in PriorCaches :
          /\ hasMsgCache = (c.msg # <<>>)
          /\ message_token_cache = c.msg
          /\ message_token_value = PriorValues(c.msg)
          /\ cache_misses = Len(c.msg)
          /\ file_analysis_cache = c.fc
    \* a message cache near its capacity is explored with one readable file
    /\ Len(message_token_cache) > MsgEvictBatch => Cardinality({f \in Files : fileOk[f]}) <= 1
    /\ cache_hits = 0
    /\ projects_data = <<>>
    /\ project_combo = [values |-> <<>>, sel |-> 0]
    /\ scan = [s \in ScanIds |-> NoScan]
    /\ ptask = [s \in ScanIds |-> [p \in Projects |-> NoProjectTask]]
    /\ ftask = [f \in Files |-> NoFileTask]
    /\ analysis = <<>>
    /\ current_project = <<>>
    /\ current_conversations = <<>>
    /\ filtered_conversations = <<>>
    /\ search_cache = <<>>
    /\ search_value = EmptyDict
    /\ search = NoSearch
    /\ NoCalc

scanVars == <<projects_data, project_combo, scan>>
FileRunning(f) == ftask[f].pc \notin {"none", "queued", "done", "collected"}
ProjectRunning(p) == ptask[1][p].pc = "collect"

\* the record the task is counting, and its key
CurrentMessage(f) == ParsedRecords(fileLines[f])[ftask[f].i]
CurrentKey(f) == MessageCacheKey(CurrentMessage(f))
\* count_message_tokens returns: the next record of the file, or the end of
\* analyze_conversation_tokens and on to _cache_file_analysis
NextMessage(t, f) ==
    IF t.i < Len(ParsedRecords(fileLines[f]))
    THEN [t EXCEPT !.i = @ + 1, !.pc = "m_has", !.keys = <<>>, !.reg = 0]
    ELSE [t EXCEPT !.pc = "fc_len", !.keys = <<>>, !.reg = 0]
\* mutant: the failing task is never marked as finished
ReturnNone_Hang(t) == [t EXCEPT !.result = <<>>]
\* an exception reaches the except clause of _perform_file_analysis or of
\* _analyze_conversation_file: the task returns None
ReturnNone(t) == [t EXCEPT !.pc = "done", !.result = <<>>, !.keys = <<>>, !.reg = 0]

\* a pool thread takes the project task; lines 961-978:
\* glob, the empty project, the submission of the file tasks
ProjectStart(p) ==
    /\ ptask[1][p].pc = "queued"
    /\ Cardinality({q \in Projects : ProjectRunning(q)})
          < Min(MaxProjectWorkers, Len(projectDirs))
    /\ IF JsonlFiles(p) = {}
       THEN /\ ptask' = [ptask EXCEPT ![1][p].pc = "done"]
            /\ UNCHANGED ftask
       ELSE /\ ptask' = [ptask EXCEPT ![1][p].pc = "collect"]
            /\ ftask' = [f \in Files |-> IF fileDir[f] = p
                                         THEN [NoFileTask EXCEPT !.pc = "queued"]
                                         ELSE ftask[f]]
    /\ UNCHANGED <<envVars, tokVars, file_analysis_cache, scanVars>>
    /\ UNCHANGED <<analysis, selVars, searchVars, calcVars>>

\* a pool thread takes the file task; lines 1040-1047 and, on a miss, the
\* reading of the file (lines 1076-1111)
FileLookup(f) ==
    /\ ftask[f].pc = "queued"
    /\ Cardinality({g \in Files : fileDir[g] = fileDir[f] /\ FileRunning(g)})
          < Min(MaxFileWorkers, Cardinality(JsonlFiles(fileDir[f])))
    /\ ftask' = [ftask EXCEPT ![f] =
          IF ~fileOk[f] THEN ReturnNone(@)
          ELSE IF Has(file_analysis_cache, FileCacheKey(f)) THEN [@ EXCEPT !.pc = "hit"]
          ELSE IF ~ReadLines(NoLinesRead, fileLines[f]).ok THEN ReturnNone(@)
          ELSE IF ParsedRecords(fileLines[f]) = <<>> THEN [@ EXCEPT !.pc = "fc_len"]
          ELSE [@ EXCEPT !.pc = "m_has", !.i = 1]]
    /\ UNCHANGED <<envVars, tokVars, file_analysis_cache, scanVars, ptask>>
    /\ UNCHANGED <<analysis, selVars, searchVars, calcVars>>

\* line 1048: return self._file_analysis_cache[cache_key]
FileHit(f) ==
    /\ ftask[f].pc = "hit"
    /\ ftask' = [ftask EXCEPT ![f] =
          IF Has(file_analysis_cache, FileCacheKey(f))
          THEN [@ EXCEPT !.pc = "done", !.result = <<ConversationRecord(f)>>]
          ELSE ReturnNone(@)]
    /\ UNCHANGED <<envVars, tokVars, file_analysis_cache, scanVars, ptask>>
    /\ UNCHANGED <<analysis, selVars, searchVars, calcVars>>

\* lines 114-115: hasattr(self, '_message_token_cache') and, the attribute
\* once set never being removed, cache_key in self._message_token_cache
MsgHasattr(f) ==
    /\ ftask[f].pc = "m_has"
    /\ ftask' = [ftask EXCEPT ![f].pc =
          IF ~hasMsgCache THEN "m_create"
          ELSE IF Has(message_token_cache, CurrentKey(f)) THEN "m_hit_load"
          ELSE "m_miss_load"]
    /\ UNCHANGED <<envVars, tokVars, file_analysis_cache, scanVars, ptask>>
    /\ UNCHANGED <<analysis, selVars, searchVars, calcVars>>

\* line 119: self._message_token_cache = {}
MsgCreate(f) ==
    /\ ftask[f].pc = "m_create"
    /\ hasMsgCache' = TRUE
    /\ message_token_cache' = <<>>
    /\ message_token_value' = EmptyDict
    /\ ftask' = [ftask EXCEPT ![f].pc = "m_miss_load"]
    /\ UNCHANGED <<envVars, cache_hits, cache_misses, file_analysis_cache, scanVars, ptask>>
    /\ UNCHANGED <<analysis, selVars, searchVars, calcVars>>

\* line 116, self.cache_hits += 1: the read
MsgHitLoad(f) ==
    /\ ftask[f].pc = "m_hit_load"
    /\ ftask' = [ftask EXCEPT ![f].pc = "m_hit_store", ![f].reg = cache_hits]
    /\ UNCHANGED <<envVars, tokVars, file_analysis_cache, scanVars, ptask>>
    /\ UNCHANGED <<analysis, selVars, searchVars, calcVars>>

\* line 116, self.cache_hits += 1: the write
MsgHitStore(f) ==
    /\ ftask[f].pc = "m_hit_store"
    /\ cache_hits' = ftask[f].reg + 1
    /\ ftask' = [ftask EXCEPT ![f].pc = "m_hit_ret", ![f].reg = 0]
    /\ UNCHANGED <<envVars, hasMsgCache, message_token_cache, message_token_value, cache_misses,
                   file_analysis_cache, scanVars, ptask>>
    /\ UNCHANGED <<analysis, selVars, searchVars, calcVars>>

\* line 117: return self._message_token_cache[cache_key]
MsgHitReturn(f) ==
    /\ ftask[f].pc = "m_hit_ret"
    /\ ftask' = [ftask EXCEPT ![f] =
          IF Has(message_token_cache, CurrentKey(f)) THEN NextMessage(@, f)
          ELSE ReturnNone(@)]
    /\ UNCHANGED <<envVars, tokVars, file_analysis_cache, scanVars, ptask>>
    /\ UNCHANGED <<analysis, selVars, searchVars, calcVars>>

\* line 121, self.cache_misses += 1: the read
MsgMissLoad(f) ==
    /\ ftask[f].pc = "m_miss_load"
    /\ ftask' = [ftask EXCEPT ![f].pc = "m_miss_store", ![f].reg = cache_misses]
    /\ UNCHANGED <<envVars, tokVars, file_analysis_cache, scanVars, ptask>>
    /\ UNCHANGED <<analysis, selVars, searchVars, calcVars>>

\* line 121, self.cache_misses += 1: the write; line 122, the calculation,
\* which raises on a content item that is not an object
MsgMissStore(f) ==
    /\ ftask[f].pc = "m_miss_store"
    /\ cache_misses' = ftask[f].reg + 1
    /\ ftask' = [ftask EXCEPT ![f] =
          IF calculate_message_tokens(CurrentMessage(f)).ok
          THEN [@ EXCEPT !.pc = "m_store", !.reg = 0]
          ELSE ReturnNone(@)]
    /\ UNCHANGED <<envVars, hasMsgCache, message_token_cache, message_token_value, cache_hits,
                   file_analysis_cache, scanVars, ptask>>
    /\ UNCHANGED <<analysis, selVars, searchVars, calcVars>>

\* lines 122-125: self._message_token_cache[cache_key] = total_tokens
MsgStore(f) ==
    /\ ftask[f].pc = "m_store"
    /\ message_token_cache' = SetItem(message_token_cache, CurrentKey(f))
    /\ message_token_value' = ValStore(message_token_value, message_token_cache', CurrentKey(f),
                                        calculate_message_tokens(CurrentMessage(f)).n)
    /\ ftask' = [ftask EXCEPT ![f].pc = "m_len"]
    /\ UNCHANGED <<envVars, hasMsgCache, cache_hits, cache_misses,
                   file_analysis_cache, scanVars, ptask>>
    /\ UNCHANGED <<analysis, selVars, searchVars, calcVars>>

\* line 128: if len(self._message_token_cache) > 500
MsgLen(f) ==
    /\ ftask[f].pc = "m_len"
    /\ ftask' = [ftask EXCEPT ![f] =
          IF MsgCacheOverflow(message_token_cache) THEN [@ EXCEPT !.pc = "m_keys"]
          ELSE NextMessage(@, f)]
    /\ UNCHANGED <<envVars, tokVars, file_analysis_cache, scanVars, ptask>>
    /\ UNCHANGED <<analysis, selVars, searchVars, calcVars>>

\* line 130: keys_to_remove = list(self._message_token_cache.keys())[:100]
MsgKeys(f) ==
    /\ ftask[f].pc = "m_keys"
    /\ ftask' = [ftask EXCEPT ![f] =
          IF MsgKeysToRemove(message_token_cache) = <<>> THEN NextMessage(@, f)
          ELSE [@ EXCEPT !.pc = "m_del", !.keys = MsgKeysToRemove(message_token_cache)]]
    /\ UNCHANGED <<envVars, tokVars, file_analysis_cache, scanVars, ptask>>
    /\ UNCHANGED <<analysis, selVars, searchVars, calcVars>>

\* lines 131-132: one turn of the loop, del self._message_token_cache[key]
MsgDel(f) ==
    /\ ftask[f].pc = "m_del"
    /\ LET k == Head(ftask[f].keys)
       IN  IF Has(message_token_cache, k)
           THEN /\ message_token_cache' = DelItem(message_token_cache, k)
                /\ message_token_value' = [x \in Range(message_token_cache') |->
                                              message_token_value[x]]
                /\ ftask' = [ftask EXCEPT ![f] =
                      IF Len(@.keys) = 1 THEN NextMessage(@, f)
                      ELSE [@ EXCEPT !.keys = Tail(@)]]
           ELSE /\ ftask' = [ftask EXCEPT ![f] = ReturnNone(@)]
                /\ UNCHANGED <<message_token_cache, message_token_value>>
    /\ UNCHANGED <<envVars, hasMsgCache, cache_hits, cache_misses,
                   file_analysis_cache, scanVars, ptask>>
    /\ UNCHANGED <<analysis, selVars, searchVars, calcVars>>

\* line 1139: if len(self._file_analysis_cache) >= self._file_cache_max_size
FileCacheLen(f) ==
    /\ ftask[f].pc = "fc_len"
    /\ ftask' = [ftask EXCEPT ![f].pc =
          IF FileCacheFull(file_analysis_cache) THEN "fc_keys" ELSE "fc_store"]
    /\ UNCHANGED <<envVars, tokVars, file_analysis_cache, scanVars, ptask>>
    /\ UNCHANGED <<analysis, selVars, searchVars, calcVars>>

\* line 1141: keys_to_remove = list(self._file_analysis_cache.keys())[:20]
FileCacheKeys(f) ==
    /\ ftask[f].pc = "fc_keys"
    /\ ftask' = [ftask EXCEPT ![f] =
          IF FileKeysToRemove(file_analysis_cache) = <<>> THEN [@ EXCEPT !.pc = "fc_store"]
          ELSE [@ EXCEPT !.pc = "fc_del", !.keys = FileKeysToRemove(file_analysis_cache)]]
    /\ UNCHANGED <<envVars, tokVars, file_analysis_cache, scanVars, ptask>>
    /\ UNCHANGED <<analysis, selVars, searchVars, calcVars>>

\* lines 1142-1143: one turn of the loop, del self._file_analysis_cache[key]
FileCacheDel(f) ==
    /\ ftask[f].pc = "fc_del"
    /\ LET k == Head(ftask[f].keys)
       IN  IF Has(file_analysis_cache, k)
           THEN /\ file_analysis_cache' = DelItem(file_analysis_cache, k)
                /\ ftask' = [ftask EXCEPT ![f] =
                      IF Len(@.keys) = 1 THEN [@ EXCEPT !.pc = "fc_store", !.keys = <<>>]
                      ELSE [@ EXCEPT !.keys = Tail(@)]]
           ELSE /\ ftask' = [ftask EXCEPT ![f] = ReturnNone(@)]
                /\ UNCHANGED file_analysis_cache
    /\ UNCHANGED <<envVars, tokVars, scanVars, ptask>>
    /\ UNCHANGED <<analysis, selVars, searchVars, calcVars>>

\* line 1145 and the return of line 1057
FileCacheStore(f) ==
    /\ ftask[f].pc = "fc_store"
    /\ file_analysis_cache' = SetItem(file_analysis_cache, FileCacheKey(f))
    /\ ftask' = [ftask EXCEPT ![f].pc = "done", ![f].result = <<ConversationRecord(f)>>]
    /\ UNCHANGED <<envVars, tokVars, scanVars, ptask>>
    /\ UNCHANGED <<analysis, selVars, searchVars, calcVars>>

\* lines 981-986: one turn of the as_completed loop of the project task
ProjectCollect(p, f) ==
    /\ ptask[1][p].pc = "collect"
    /\ fileDir[f] = p
    /\ ftask[f].pc = "done"
    /\ ftask' = [ftask EXCEPT ![f].pc = "collected"]
    /\ ptask' = [ptask EXCEPT ![1][p].arrived = @ \o ftask[f].result]
    /\ UNCHANGED <<envVars, tokVars, file_analysis_cache, scanVars>>
    /\ UNCHANGED <<analysis, selVars, searchVars, calcVars>>

\* lines 990-992: every file task collected, the sort and the return
ProjectReturn(p) ==
    /\ ptask[1][p].pc = "collect"
    /\ \A f \in JsonlFiles(p) : ftask[f].pc = "collected"
    /\ ptask' = [ptask EXCEPT ![1][p].pc = "done",
                              ![1][p].convs = SortByMtimeDesc(ptask[1][p].arrived)]
    /\ UNCHANGED <<envVars, tokVars, file_analysis_cache, scanVars, ftask>>
    /\ UNCHANGED <<analysis, selVars, searchVars, calcVars>>

\* the root directory is removed while the scan thread is starting
RootRemoved ==
    /\ rootExists
    /\ scan[1].pc \in {"start", "enum"}
    /\ rootExists' = FALSE
    /\ UNCHANGED <<projectDirs, fileDir, fileMtime, fileOk, fileLines, tokVars,
                   file_analysis_cache, scanVars, ptask, ftask>>
    /\ UNCHANGED <<analysis, selVars, searchVars, calcVars>>

FileStep(f) ==
    \/ FileLookup(f)
    \/ FileHit(f)
    \/ MsgHasattr(f)
    \/ MsgCreate(f)
    \/ MsgHitLoad(f)
    \/ MsgHitStore(f)
    \/ MsgHitReturn(f)
    \/ MsgMissLoad(f)
    \/ MsgMissStore(f)
    \/ MsgStore(f)
    \/ MsgLen(f)
    \/ MsgKeys(f)
    \/ MsgDel(f)
    \/ FileCacheLen(f)
    \/ FileCacheKeys(f)
    \/ FileCacheDel(f)
    \/ FileCacheStore(f)

\* every step of the scan thread, of a pool thread and of the UI callback
ThreadStep ==
    \/ ScanClear(1)
    \/ ScanEnum(1)
    \/ \E p \in Projects : ProjectStart(p)
    \/ \E f \in Files : FileStep(f)
    \/ \E p \in Projects, f \in Files : ProjectCollect(p, f)
    \/ \E p \in Projects : ProjectReturn(p)
    \/ \E p \in Projects : ScanCollect(1, p)
    \/ ScanFinish(1)
    \/ update_projects_ui(1)

NextConc ==
    \/ load_projects(1)
    \/ RootRemoved
    \/ ThreadStep

SpecConc == InitConc /\ [][NextConc]_vars
FairConc == SpecConc /\ WF_vars(ThreadStep)

\* ------------------------------- the analysis of file contents (SpecAnalyze)
MaxAnalyzeFiles == 3
AnalyzeFiles == 1..MaxAnalyzeFiles
BadLine == Line("bad", "other", "str", <<>>, <<>>, 0)
BlankLine == Line("blank", "other", "str", <<>>, <<>>, 0)
NonObjectLine == Line("nonobj", "other", "str", <<>>, <<>>, 0)
SummaryLine == Line("obj", "summary", "str", <<"b", "e">>, <<>>, 1)
\* a record that is neither a message nor a summary
SystemLine == Line("obj", "system", "str", <<"a">>, <<>>, 0)
BlocksLine ==
    Line("obj", "user", "list", <<>>, <<Block("text", <<"a", "b">>), Block("image", <<>>)>>, 0)
BadBlockLine ==
    Line("obj", "assistant", "list", <<>>, <<Block("text", <<"a">>), Block("nonobj", <<>>)>>, 0)
\* two user records whose text holds a lone surrogate (the JSON escape of
\* one), of different lengths, with the same (absent) timestamp
SurrogateLine(n) ==
    Line("obj", "user", "str", <<LoneSurrogate>> \o [i \in 1..n |-> "a"], <<>>, 0)
\* the contents a log file may have
FileContents ==
    {<<>>,
     <<PlainMessage(1), SummaryLine>>,
     <<PlainMessage(8)>>,
     <<BadLine, BadLine>>,
     <<BadLine, PlainMessage(1)>>,
     <<BlocksLine, BlankLine>>,
     <<PlainMessage(1), NonObjectLine>>,
     <<PlainMessage(1), BadBlockLine>>,
     <<SystemLine, PlainMessage(1)>>,
     <<SurrogateLine(0), SurrogateLine(8)>>}
\* the state of a session in which nothing has been counted or analysed
FreshWorld ==
    [has |-> FALSE, msg |-> <<>>, val |-> EmptyDict, hits |-> 0, misses |-> 0, fc |-> <<>>]

\* the state before the analyses: w the state of the caches, first the
\* record of file 1 when an earlier scan has cached it
AnalyzeStart(w, first) ==
    /\ hasMsgCache = w.has
    /\ message_token_cache = w.msg
    /\ message_token_value = w.val
    /\ cache_hits = w.hits
    /\ cache_misses = w.misses
    /\ file_analysis_cache = IF first # <<>> THEN <<FileCacheKey(1)>> ELSE <<>>
    /\ analysis = [f \in AnalyzeFiles |-> IF f = 1 THEN first ELSE <<>>]
\* r: the analysis of file 1 by the earlier scan
AnalyzedBefore(r) == AnalyzeStart(r.w, r.result)

\* the files of one project are about to be analysed; file 1 may have been
\* analysed by an earlier scan of the session
InitAnalyze ==
    /\ rootExists = TRUE
    /\ projectDirs = <<1>>
    /\ fileDir = [f \in AnalyzeFiles |-> 1]
    /\ fileMtime = [f \in AnalyzeFiles |-> ((f - 1) % MaxMtime) + 1]
    /\ fileOk \in {[f \in AnalyzeFiles |-> TRUE], [f \in AnalyzeFiles |-> f # 1]}
    /\ fileLines \in [AnalyzeFiles -> FileContents]
    /\ \/ AnalyzeStart(FreshWorld, <<>>)
       \/ fileOk[1] /\ AnalyzedBefore(perform_file_analysis(FreshWorld, 1))
    /\ projects_data = <<>>
    /\ project_combo = [values |-> <<>>, sel |-> 0]
    /\ scan = [s \in ScanIds |-> NoScan]
    /\ ptask = [s \in ScanIds |-> [p \in Projects |->
                  IF s = 1 /\ p = 1 THEN [NoProjectTask EXCEPT !.pc = "collect"]
                  ELSE NoProjectTask]]
    /\ ftask = [f \in AnalyzeFiles |-> [NoFileTask EXCEPT !.pc = "queued"]]
    /\ current_project = <<>>
    /\ current_conversations = <<>>
    /\ filtered_conversations = <<>>
    /\ search_cache = <<>>
    /\ search_value = EmptyDict
    /\ search = NoSearch
    /\ NoCalc

\* the file task of f has returned: w the state it leaves, rec its record
FileAnalyzed(f, w, rec) ==
    /\ WorldBecomes(w)
    /\ analysis' = [analysis EXCEPT ![f] = rec]
    /\ ftask' = [ftask EXCEPT ![f].pc = "collected", ![f].result = rec]
    /\ ptask' = [ptask EXCEPT ![1][1].arrived = @ \o rec]
\* r: what _perform_file_analysis gives on a miss
FileAnalyzedMiss(f, r) ==
    FileAnalyzed(f, analyze_conversation_file(World, f).w, r.result)
\* a file task, _analyze_conversation_file, run as one step, and the turn of
\* the as_completed loop that appends its record (lines 981-986)
AnalyzeFile(f) ==
    /\ ftask[f].pc = "queued"
    /\ IF ~fileOk[f] THEN FileAnalyzed(f, World, <<>>)
       ELSE IF Has(file_analysis_cache, FileCacheKey(f)) THEN FileAnalyzed(f, World, analysis[f])
       ELSE FileAnalyzedMiss(f, perform_file_analysis(World, f))
    /\ UNCHANGED <<calcVars, envVars, projects_data, project_combo, scan, selVars, searchVars>>

\* lines 990-992 with the full records
AnalyzeReturn ==
    /\ ptask[1][1].pc = "collect"
    /\ \A f \in AnalyzeFiles : ftask[f].pc = "collected"
    /\ ptask' = [ptask EXCEPT ![1][1].pc = "done",
                              ![1][1].convs = SortByMtimeDesc(ptask[1][1].arrived)]
    /\ UNCHANGED <<envVars, tokVars, file_analysis_cache, projects_data, project_combo, scan,
                   ftask, analysis, selVars, searchVars, calcVars>>

NextAnalyze ==
    \/ \E f \in AnalyzeFiles : AnalyzeFile(f)
    \/ AnalyzeReturn

SpecAnalyze == InitAnalyze /\ [][NextAnalyze]_vars

\* every line of the file is a line json.loads rejects
AllLinesUnparsable(f) ==
    fileLines[f] # <<>> /\ \A i \in DOMAIN fileLines[f] : fileLines[f][i].kind = "bad"
\* the line decodes as a structured record
Decodable(l) == l.kind = "obj" /\ ~HasNonObjectBlock(l)
\* the sum of the counts a fresh _calculate_message_tokens gives the records
RECURSIVE FreshTotal(_)
FreshTotal(msgs) ==
    IF msgs = <<>> THEN 0
    ELSE calculate_message_tokens(Head(msgs)).n + FreshTotal(Tail(msgs))

\* C11: a project scan returns no record for a file whose every line is
\* unparsable: when the other files of the project are analysed without
\* failure, the records returned are exactly those of the other files (n - k
\* records).
C11_MalformedFileYieldsNoRecord ==
    LET good == {f \in AnalyzeFiles : ~AllLinesUnparsable(f)}
    IN  (ptask[1][1].pc = "done" /\ \A f \in good : analysis[f] # <<>>) =>
            /\ Len(ptask[1][1].convs) = Cardinality(good)
            /\ \A i \in DOMAIN ptask[1][1].convs : ptask[1][1].convs[i].file_path \in good

\* C12: a line that cannot be decoded as a structured record is skipped on
\* its own: a readable file yields a record, and the record counts every
\* line that can be decoded.
C12_UndecodableLineSkipped ==
    \A f \in AnalyzeFiles : (ftask[f].pc = "collected" /\ fileOk[f]) =>
        /\ analysis[f] # <<>>
        /\ analysis[f][1].token_analysis.message_count =
              Cardinality({i \in DOMAIN fileLines[f] : Decodable(fileLines[f][i])})

\* C13: the total_tokens of every record the analyzer produced equals the
\* sum of the counts computed without the message cache for the parsed
\* records of its file.
C13_TotalEqualsFreshSum ==
    \A f \in AnalyzeFiles : (ftask[f].pc = "collected" /\ ftask[f].result # <<>>) =>
        ftask[f].result[1].total_tokens = FreshTotal(ParsedRecords(fileLines[f]))

\* ------------------------------------------------------------------ search
SearchCacheMax == 50
MaxMatches == 10
ParallelThreshold == 5
MaxSearchWorkers == 4
\* str(None)
NoneText == <<"N", "o", "n", "e">>
\* f"{x}" of an optional text
Format(x) == IF x = <<>> THEN NoneText ELSE x[1]
\* re.IGNORECASE, on the letters of the alphabet
Lower(c) == IF c = "N" THEN "n" ELSE c
\* the number of digits of the largest repetition count of a pattern,
\* 4294967295; of the counts written with the digit 7 alone, 7777777777 and
\* the longer ones are too large
MaxRepeatLen == 10
\* the count of a repetition "{n}" that ends the keyword, <<>> without one
RepeatCount(keyword) ==
    LET open == {i \in DOMAIN keyword : keyword[i] = "{"}
    IN  IF open = {} \/ keyword[Len(keyword)] # "}" THEN <<>>
        ELSE SubSeq(keyword, (CHOOSE i \in open : TRUE) + 1, Len(keyword) - 1)
\* what re.compile(keyword, re.IGNORECASE) raises: re.error for an unbalanced
\* parenthesis, OverflowError for a repetition count that is too large
compile_raises(keyword) ==
    IF "(" \in Range(keyword) THEN "re.error"
    ELSE IF /\ RepeatCount(keyword) # <<>>
            /\ Range(RepeatCount(keyword)) \subseteq Digits
            /\ Len(RepeatCount(keyword)) >= MaxRepeatLen
    THEN "OverflowError"
    ELSE "none"
\* re.compile(keyword, re.IGNORECASE) for a keyword made of literal
\* characters with an optional leading ^ and an optional trailing $
compile(keyword) ==
    LET start == keyword # <<>> /\ Head(keyword) = "^"
        rest == IF start THEN Tail(keyword) ELSE keyword
        end == rest # <<>> /\ rest[Len(rest)] = "$"
    IN  [ok |-> compile_raises(keyword) = "none", raises |-> compile_raises(keyword),
         start |-> start, end |-> end,
         lit |-> IF end THEN SubSeq(rest, 1, Len(rest) - 1) ELSE rest]
\* the literal of the pattern is found in the text at position i
MatchAt(pat, text, i) ==
    \A j \in DOMAIN pat.lit : Lower(text[i + j - 1]) = Lower(pat.lit[j])
\* pattern.search(text) is not None
pattern_search(pat, text) ==
    \E i \in 1..(Len(text) - Len(pat.lit) + 1) :
        /\ pat.start => i = 1
        /\ pat.end => i + Len(pat.lit) - 1 = Len(text)
        /\ MatchAt(pat, text, i)

\* ' '.join(text_parts)
RECURSIVE JoinTexts(_)
JoinTexts(parts) ==
    IF parts = <<>> THEN <<>>
    ELSE IF Len(parts) = 1 THEN parts[1].text
    ELSE parts[1].text \o <<" ">> \o JoinTexts(Tail(parts))
\* _extract_searchable_text(data): '' when anything raises
extract_searchable_text(l) ==
    IF l.kind # "obj" THEN <<>>
    ELSE IF l.type = "summary" THEN l.text
    ELSE IF l.type \in {"user", "assistant"}
    THEN IF l.shape = "str" THEN l.text
         ELSE IF HasNonObjectBlock(l) THEN <<>>
         ELSE JoinTexts(SelectSeq(l.blocks, LAMBDA b : b.btype = "text"))
    ELSE <<>>

\* f"{first_user_msg} {summary}"
quick_content(conv) == Format(conv.first_user_msg) \o <<" ">> \o Format(conv.summary)
\* the entry returned at lines 1530-1536
QuickMatch(conv) ==
    [line_number |-> 0, field_name |-> "preview", message_type |-> "quick_match",
     timestamp |-> conv.last_timestamp, preview |-> TRUE]
\* the entry appended at lines 1550-1556
LineMatch(i, l) ==
    [line_number |-> i, field_name |-> "content", message_type |-> l.type,
     timestamp |-> l.ts, preview |-> FALSE]
\* content_text and pattern.search(content_text)
TextHit(pat, t) == t # <<>> /\ pattern_search(pat, t)
\* the line is not skipped and its searchable text matches
LineHit(pat, l) == l.kind \notin {"blank", "bad"} /\ TextHit(pat, extract_searchable_text(l))
\* mutant: the scan stops one match later
MatchesFull_Late(matches) == Len(matches) > MaxMatches
\* len(matches) >= 10
MatchesFull(matches) == Len(matches) >= MaxMatches
\* lines 1540-1563 from line i on: the matches, and the number of lines read
RECURSIVE ScanLines(_, _, _, _)
\* a match has been appended at line i
AfterMatch(pat, lines, i, matches) ==
    IF MatchesFull(matches)
    THEN [matches |-> matches, opened |-> TRUE, examined |-> i]
    ELSE ScanLines(pat, lines, i + 1, matches)
ScanLines(pat, lines, i, matches) ==
    IF i > Len(lines) THEN [matches |-> matches, opened |-> TRUE, examined |-> Len(lines)]
    ELSE IF LineHit(pat, lines[i])
    THEN AfterMatch(pat, lines, i, Append(matches, LineMatch(i, lines[i])))
    ELSE ScanLines(pat, lines, i + 1, matches)
\* _search_in_conversation(conv, pattern): the match list, whether the file
\* was opened and how many of its lines were read
search_in_conversation(conv, pat) ==
    IF pattern_search(pat, quick_content(conv))
    THEN [matches |-> <<QuickMatch(conv)>>, opened |-> FALSE, examined |-> 0]
    ELSE IF ~fileOk[conv.file_path]
    THEN [matches |-> <<>>, opened |-> FALSE, examined |-> 0]
    ELSE ScanLines(pat, fileLines[conv.file_path], 1, <<>>)
\* what the matching of each record of convs gives
Outcomes(convs, pat) == [i \in DOMAIN convs |-> search_in_conversation(convs[i], pat)]
\* result = conv.copy(); result['matches'] = matches
WithMatches(conv, matches) == conv @@ [matches |-> matches]
\* mutant: result = conv, the record of the list itself
copy_Same(conv) == [own |-> FALSE, items |-> conv]
\* conv.copy(): a dictionary of its own that holds the items of conv
copy(conv) == [own |-> TRUE, items |-> conv]
\* the record conv of the list after result['matches'] = matches
AfterAttach(conv, matches) ==
    IF copy(conv).own THEN conv ELSE WithMatches(copy(conv).items, matches)
\* the records of the list after the loop of lines 1498-1503 or 1481-1489
Searched(convs, out) ==
    [i \in DOMAIN convs |->
        IF out[i].matches # <<>> THEN AfterAttach(convs[i], out[i].matches) ELSE convs[i]]
\* lines 1498-1503: the records with a non-empty match list, from record i on
RECURSIVE Hits(_, _, _)
Hits(convs, out, i) ==
    IF i > Len(convs) THEN <<>>
    ELSE IF out[i].matches # <<>>
    THEN <<WithMatches(convs[i], out[i].matches)>> \o Hits(convs, out, i + 1)
    ELSE Hits(convs, out, i + 1)
\* f"{self.current_project}:{keyword}"
SearchKey(project, keyword) == project \o <<":">> \o keyword
\* mutant: the cache is taken as full one entry later
SearchCacheFull_Late(c) == Len(c) > SearchCacheMax
\* len(self._search_cache) >= self._search_cache_max_size
SearchCacheFull(c) == Len(c) >= SearchCacheMax
\* mutant: the key inserted last is taken
OldestKey_Newest(c) == c[Len(c)]
\* next(iter(self._search_cache))
OldestKey(c) == c[1]
\* _cache_search_results: the keys after it
cache_search_results(c, k) ==
    IF SearchCacheFull(c) THEN SetItem(DelItem(c, OldestKey(c)), k) ELSE SetItem(c, k)

\* --------------------------------------- searches one at a time (SpecSearch)
MaxSearches == 2
ProjectA == <<"a">>
ProjectB == <<"a", ":", "b">>
ProjectC == <<"c">>
SearchProjects == <<ProjectA, ProjectB, ProjectC>>
SearchFiles == 1..9
\* the project directory of each log file
SearchFileDir(f) == IF f <= 2 THEN 1 ELSE IF f = 3 THEN 2 ELSE 3
UserLine(t) == Line("obj", "user", "str", t, <<>>, 0)
AssistantLine(t) == Line("obj", "assistant", "str", t, <<>>, 0)
SummaryOf(t) == Line("obj", "summary", "str", t, <<>>, 0)
\* a user record made of an image block and a text block
ImageFirstLine ==
    Line("obj", "user", "list", <<>>, <<Block("image", <<>>), Block("text", <<"b">>)>>, 0)
\* the contents of the log files
SearchFileLines ==
    [f \in SearchFiles |->
        CASE f = 1 -> <<UserLine(<<"a">>)>>
          [] f = 2 -> <<SummaryOf(<<"b", " ", "e">>), UserLine(<<"a">>)>>
          [] f = 3 -> <<UserLine(<<"a">>), AssistantLine(<<"c">>)>>
          [] f = 4 -> <<SummaryOf(<<"e">>), UserLine(<<"a">>)>>
                          \o [i \in 1..(MaxMatches + 2) |-> AssistantLine(<<"b">>)]
          [] f = 5 -> <<ImageFirstLine>>
          [] f = 6 -> <<SummaryOf(<<"e">>), UserLine(<<"a">>), BadLine, BlankLine,
                        AssistantLine(<<"b", " ", "e">>)>>
          [] OTHER -> <<SummaryOf(<<"e">>), UserLine(<<"a">>)>>]
\* the keywords typed
Keywords ==
    {<<"b">>, <<"n", "o", "n", "e">>, <<"^", "b">>, <<"(">>, <<"c">>, <<"b", ":", "c">>,
     <<"b", "{">> \o [i \in 1..MaxRepeatLen |-> "7"] \o <<"}">>}
\* the log file that may disappear after the scan
VanishingFile == 6

\* the records of the files of project p, as the scan indexed them
IndexRecords(p) ==
    LET fs == {f \in SearchFiles : SearchFileDir(f) = p}
        order == CHOOSE o \in Perms(fs) : \A i, j \in DOMAIN o : i < j => o[i] < o[j]
    IN  SortByMtimeDesc([i \in DOMAIN order |-> analysis[order[i]][1]])
\* a search for `keyword` in project "o", made and cached earlier
OldKeyword(i) == [j \in 1..i |-> "x"]
OldSearchKeys(n) == [i \in 1..n |-> SearchKey(<<"o">>, OldKeyword(i))]
\* a stored result and the search that stored it
Stored(results, project, keyword) == [results |-> results, source |-> <<project, keyword>>]
OldSearchValue(k) == Stored(<<>>, <<"o">>, SubSeq(k, 3, Len(k)))
\* no search has been made
NoSearchYet(done) ==
    [pc |-> "idle", project |-> <<>>, keyword |-> <<>>, results |-> <<>>, from_cache |-> FALSE,
     compiled |-> FALSE, trace |-> <<>>, source |-> <<>>, repeated |-> FALSE, age |-> 0,
     count |-> 0, done |-> done, progress |-> FALSE, report |-> "none"]
\* the search cache holds n results of earlier searches of the session
SearchedBefore(n) ==
    /\ search_cache = OldSearchKeys(n)
    /\ search_value = [k \in Range(OldSearchKeys(n)) |-> OldSearchValue(k)]
    /\ search = NoSearchYet({})
\* ProjectA was searched for `keyword` after m other searches, and n other
\* searches were made since
SearchedAmong(keyword, hits, m, n) ==
    /\ search_cache = SubSeq(OldSearchKeys(m + n), 1, m) \o <<SearchKey(ProjectA, keyword)>>
                          \o SubSeq(OldSearchKeys(m + n), m + 1, m + n)
    /\ search_value = [k \in Range(search_cache) |->
                          IF k = SearchKey(ProjectA, keyword)
                          THEN Stored(hits, ProjectA, keyword) ELSE OldSearchValue(k)]
    /\ search = NoSearchYet({[pair |-> <<ProjectA, keyword>>, since |-> n]})
\* the state a finished scan has left
Scanned(r) ==
    /\ hasMsgCache = r.w.has
    /\ message_token_cache = r.w.msg
    /\ message_token_value = r.w.val
    /\ cache_hits = r.w.hits
    /\ cache_misses = r.w.misses
    /\ file_analysis_cache = r.w.fc

\* the project tasks a scan may have
MaxPoolProjects == 5
PoolProjects == 1..MaxPoolProjects
\* a scan has indexed three projects
SearchEnv ==
    /\ NoCalc
    /\ rootExists = TRUE
    /\ projectDirs = <<1, 2, 3>>
    /\ fileDir = [f \in SearchFiles |-> SearchFileDir(f)]
    /\ fileMtime = [f \in SearchFiles |-> f]
    /\ fileOk = [f \in SearchFiles |-> TRUE]
    /\ fileLines = SearchFileLines
    /\ Scanned(AnalyzeInOrder(FreshWorld, [i \in SearchFiles |-> i], <<>>))
    /\ analysis = [f \in SearchFiles |-> perform_file_analysis(FreshWorld, f).result]
    /\ projects_data = [p \in 1..3 |-> [name |-> SearchProjects[p], convs |-> IndexRecords(p)]]
    /\ project_combo = [values |-> SearchProjects, sel |-> 1]
    /\ scan = [s \in ScanIds |-> NoScan]
    /\ ptask = [s \in ScanIds |-> [p \in PoolProjects |-> NoProjectTask]]
    /\ ftask = [f \in SearchFiles |-> NoFileTask]
\* after the scan, with the first project selected
InitSearch ==
    /\ SearchEnv
    /\ current_project = <<ProjectA>>
    /\ current_conversations = projects_data[1].convs
    /\ filtered_conversations = projects_data[1].convs
    /\ \/ \E n \in {0, SearchCacheMax - 1, SearchCacheMax} : SearchedBefore(n)
       \/ \E m \in {0, SearchCacheMax - 1} :
             SearchedAmong(<<"b">>,
                           Hits(current_conversations,
                                Outcomes(current_conversations, compile(<<"b">>)), 1),
                           m, SearchCacheMax - 1 - m)

\* _on_project_select: the project chosen in the list becomes the current one
SelectProject(p) ==
    /\ current_project # <<projects_data[p].name>>
    /\ project_combo' = [project_combo EXCEPT !.sel = p]
    /\ current_project' = <<projects_data[p].name>>
    /\ current_conversations' = projects_data[p].convs
    /\ filtered_conversations' = projects_data[p].convs
    /\ UNCHANGED <<envVars, tokVars, file_analysis_cache, projects_data, scan, ptask, ftask,
                   analysis, searchVars, calcVars>>

\* the searches stored so far, after one more is stored for `pair`
DoneAfterStore(done, pair) ==
    {[d EXCEPT !.since = @ + 1] : d \in {e \in done : e.pair # pair}}
        \cup {[pair |-> pair, since |-> 0]}
\* the search thread has ended, the progress bar shown at line 1413 is hidden
SearchEnded(pc, keyword, results, from_cache, compiled, trace, source, done) ==
    LET pair == <<current_project[1], keyword>>
        before == {d \in search.done : d.pair = pair}
    IN  [pc |-> pc, project |-> pair[1], keyword |-> keyword, results |-> results,
         from_cache |-> from_cache, compiled |-> compiled, trace |-> trace,
         source |-> source, repeated |-> before # {},
         age |-> IF before = {} THEN 0 ELSE (CHOOSE d \in before : TRUE).since,
         count |-> search.count + 1, done |-> done, progress |-> FALSE, report |-> "none"]
SearchEnds(pc, keyword, results, from_cache, compiled, trace, source, done) ==
    search' = SearchEnded(pc, keyword, results, from_cache, compiled, trace, source, done)
\* the message box of the handler that caught the exception: the handler
\* for re.error (lines 1459-1462) names the expression, the handler for
\* every other exception (lines 1463-1466) names the search
ReportOf(raised) == IF raised = "re.error" THEN "invalid expression" ELSE "search failed"
\* lines 1459-1466: the handler schedules the message box as a callback
\* that reads the handler's variable e. The main loop runs the callback
\* while the thread is still in the handler, and the box is shown, or after
\* the handler has ended and unbound e: the callback raises NameError and
\* no box is shown
SearchFails(keyword, raised) ==
    \E in_handler \in BOOLEAN :
        /\ search' = [SearchEnded("error", keyword, search.results, FALSE, TRUE, <<>>, <<>>,
                                  search.done)
                          EXCEPT !.report = IF in_handler THEN ReportOf(raised) ELSE "lost"]
        /\ UNCHANGED <<search_cache, search_value, projects_data, current_conversations,
                       filtered_conversations>>
\* the list of the current project is the list the index holds for it
\* (line 1154): what is assigned into its records is seen in the index
IndexWith(convs) ==
    [p \in DOMAIN projects_data |->
        IF <<projects_data[p].name>> = current_project
        THEN [projects_data[p] EXCEPT !.convs = convs]
        ELSE projects_data[p]]
\* lines 1447-1457: the results are cached and shown (line 1597)
SearchStore(keyword, key, out, results) ==
    /\ current_conversations' = Searched(current_conversations, out)
    /\ projects_data' = IndexWith(current_conversations')
    /\ filtered_conversations' = results
    /\ search_cache' = cache_search_results(search_cache, key)
    /\ search_value' = [k \in Range(search_cache') |->
                           IF k = key THEN Stored(results, current_project[1], keyword)
                           ELSE search_value[k]]
    /\ SearchEnds("shown", keyword, results, FALSE, TRUE, out, <<current_project[1], keyword>>,
                  DoneAfterStore(search.done, <<current_project[1], keyword>>))
\* lines 1440-1443: the parallel path returns the records with matches in the
\* order in which their tasks complete, the sequential path in list order
SearchCollect(keyword, key, out, hits) ==
    IF Len(current_conversations) > ParallelThreshold
    THEN \E order \in Perms(DOMAIN hits) :
            SearchStore(keyword, key, out, [i \in DOMAIN hits |-> hits[order[i]]])
    ELSE SearchStore(keyword, key, out, hits)
\* the matching of every record of the current project
SearchRun(keyword, key, out) ==
    SearchCollect(keyword, key, out, Hits(current_conversations, out, 1))
\* lines 1436-1466 after the pattern has been compiled
SearchCompiled(keyword, key, pat) ==
    IF ~pat.ok
    THEN SearchFails(keyword, pat.raises)
    ELSE SearchRun(keyword, key, Outcomes(current_conversations, pat))
\* lines 1424-1431: the lookup in the search cache
SearchLookup(keyword, key) ==
    IF Has(search_cache, key)
    THEN /\ SearchEnds("shown", keyword, search_value[key].results, TRUE, FALSE, <<>>,
                       search_value[key].source, search.done)
         /\ filtered_conversations' = search_value[key].results
         /\ UNCHANGED <<search_cache, search_value, projects_data, current_conversations>>
    ELSE SearchCompiled(keyword, key, compile(keyword))
\* _search_conversations and its thread, run without interruption
Search(keyword) ==
    /\ search.count < MaxSearches
    /\ current_project # <<>>
    /\ current_conversations # <<>>
    /\ SearchLookup(keyword, SearchKey(current_project[1], keyword))
    /\ UNCHANGED <<envVars, tokVars, file_analysis_cache, project_combo, scan, ptask, ftask,
                   analysis, current_project, calcVars>>

\* a log file is removed from the disk after the scan
FileVanishes ==
    /\ fileOk[VanishingFile]
    /\ fileOk' = [fileOk EXCEPT ![VanishingFile] = FALSE]
    /\ UNCHANGED <<calcVars, rootExists, projectDirs, fileDir, fileMtime, fileLines, tokVars,
                   file_analysis_cache, projects_data, project_combo, scan, ptask, ftask,
                   analysis, selVars, searchVars>>

NextSearch ==
    \/ \E p \in DOMAIN SearchProjects : SelectProject(p)
    \/ \E keyword \in Keywords : Search(keyword)
    \/ FileVanishes

SpecSearch == InitSearch /\ [][NextSearch]_vars

\* ------------------------------------------------ worker pools (SpecPool)
\* the project directory of each log file: 3, 2, 2, 2 and 0 files
PoolFileDir(f) == IF f <= 3 THEN 1 ELSE IF f <= 5 THEN 2 ELSE IF f <= 7 THEN 3 ELSE 4
\* mutant: one worker per task
PoolSize_Unbounded(limit, n) == n
\* max_workers = min(limit, n) of a ThreadPoolExecutor
PoolSize(limit, n) == Min(limit, n)
\* a scan has submitted its project tasks; every file was analysed and cached
\* by an earlier scan
InitPoolScan ==
    /\ NoCalc
    /\ rootExists = TRUE
    /\ projectDirs = [p \in PoolProjects |-> p]
    /\ fileDir = [f \in SearchFiles |-> PoolFileDir(f)]
    /\ fileMtime = [f \in SearchFiles |-> f]
    /\ fileOk = [f \in SearchFiles |-> TRUE]
    /\ fileLines = [f \in SearchFiles |-> <<PlainMessage(1)>>]
    /\ Scanned(AnalyzeInOrder(FreshWorld, [i \in SearchFiles |-> i], <<>>))
    /\ analysis = [f \in SearchFiles |-> perform_file_analysis(FreshWorld, f).result]
    /\ projects_data = <<>>
    /\ project_combo = [values |-> <<>>, sel |-> 0]
    /\ scan = [s \in ScanIds |-> IF s = 1 THEN [NoScan EXCEPT !.pc = "collect"] ELSE NoScan]
    /\ ptask = [s \in ScanIds |-> [p \in PoolProjects |->
                  IF s = 1 THEN [NoProjectTask EXCEPT !.pc = "queued"] ELSE NoProjectTask]]
    /\ ftask = [f \in SearchFiles |-> NoFileTask]
    /\ current_project = <<>>
    /\ current_conversations = <<>>
    /\ filtered_conversations = <<>>
    /\ SearchedBefore(0)
\* a search thread has compiled its keyword and submitted one task for each
\* of the six records of ProjectC
InitPoolSearch ==
    /\ SearchEnv
    /\ current_project = <<ProjectC>>
    /\ current_conversations = projects_data[3].convs
    /\ filtered_conversations = projects_data[3].convs
    /\ search_cache = <<>>
    /\ search_value = EmptyDict
    /\ \E keyword \in {k \in Keywords : compile(k).ok} :
          search = [NoSearchYet({}) EXCEPT !.pc = "matching", !.keyword = keyword] @@
                   [tasks |-> [c \in DOMAIN current_conversations |-> "queued"],
                    out |-> [c \in DOMAIN current_conversations |-> <<>>]]
InitPool == InitPoolScan \/ InitPoolSearch

\* a worker of the scan's pool takes a project task (lines 919-926, 961-978)
PoolProjectStart(p) ==
    /\ ptask[1][p].pc = "queued"
    /\ Cardinality({q \in PoolProjects : ptask[1][q].pc = "collect"})
          < PoolSize(MaxProjectWorkers, Len(projectDirs))
    /\ ptask' = [ptask EXCEPT ![1][p].pc = "collect"]
    /\ ftask' = [f \in SearchFiles |-> IF fileDir[f] = p
                                       THEN [NoFileTask EXCEPT !.pc = "queued"]
                                       ELSE ftask[f]]
    /\ UNCHANGED <<calcVars, envVars, tokVars, file_analysis_cache, scanVars, analysis, selVars,
                   searchVars>>
\* a worker of the project's pool takes a file task (line 972-978)
PoolFileStart(f) ==
    /\ ftask[f].pc = "queued"
    /\ Cardinality({g \in SearchFiles : fileDir[g] = fileDir[f] /\ ftask[g].pc = "running"})
          < PoolSize(MaxFileWorkers, Cardinality(JsonlFiles(fileDir[f])))
    /\ ftask' = [ftask EXCEPT ![f].pc = "running"]
    /\ UNCHANGED <<envVars, tokVars, file_analysis_cache, scanVars, ptask, analysis, selVars,
                   searchVars, calcVars>>
\* the file task returns r, and the as_completed loop appends its record
PoolFileReturns(f, r) ==
    /\ WorldBecomes(r.w)
    /\ ftask' = [ftask EXCEPT ![f].pc = "collected", ![f].result = r.result]
    /\ ptask' = [ptask EXCEPT ![1][fileDir[f]].arrived = @ \o r.result]
\* _analyze_conversation_file run by its worker as one step
PoolFileEnd(f) ==
    /\ ftask[f].pc = "running"
    /\ PoolFileReturns(f, analyze_conversation_file(World, f))
    /\ UNCHANGED <<envVars, scanVars, analysis, selVars, searchVars, calcVars>>
\* lines 968-969 and 990-992: the project task returns
PoolProjectEnd(p) ==
    /\ ptask[1][p].pc = "collect"
    /\ \A f \in JsonlFiles(p) : ftask[f].pc = "collected"
    /\ ptask' = [ptask EXCEPT ![1][p].pc = "done",
                              ![1][p].convs = SortByMtimeDesc(ptask[1][p].arrived)]
    /\ UNCHANGED <<envVars, tokVars, file_analysis_cache, scanVars, ftask, analysis, selVars,
                   searchVars, calcVars>>
\* a worker of the search's pool takes a matching task (lines 1471-1478)
PoolSearchStart(c) ==
    /\ search.pc = "matching"
    /\ search.tasks[c] = "queued"
    /\ Cardinality({d \in DOMAIN search.tasks : search.tasks[d] = "running"})
          < PoolSize(MaxSearchWorkers, Len(current_conversations))
    /\ search' = [search EXCEPT !.tasks[c] = "running"]
    /\ UNCHANGED <<envVars, tokVars, file_analysis_cache, scanVars, ptask, ftask, analysis,
                   selVars, search_cache, search_value, calcVars>>
\* mutant: the record is appended whatever its match list
Collected_All(results, conv, matches) == Append(results, WithMatches(conv, matches))
\* lines 1484-1488: the as_completed loop appends the copy of a record whose
\* task returned matches
Collected(results, conv, matches) ==
    IF matches # <<>> THEN Append(results, WithMatches(conv, matches)) ELSE results
\* the matching task of record c returns out (lines 1481-1488)
PoolSearchReturns(c, out) ==
    search' = [search EXCEPT
                 !.tasks[c] = "done",
                 !.out[c] = <<out>>,
                 !.results = Collected(@, current_conversations[c], out.matches)]
\* _search_in_conversation run by its worker as one step
PoolSearchEnd(c) ==
    /\ search.pc = "matching"
    /\ search.tasks[c] = "running"
    /\ PoolSearchReturns(c, search_in_conversation(current_conversations[c],
                                                   compile(search.keyword)))
    /\ UNCHANGED <<envVars, tokVars, file_analysis_cache, scanVars, ptask, ftask, analysis,
                   selVars, search_cache, search_value, calcVars>>
\* line 1492 and lines 1447-1457: the results are returned, cached and shown
PoolSearchReturn ==
    /\ search.pc = "matching"
    /\ \A c \in DOMAIN search.tasks : search.tasks[c] = "done"
    /\ SearchStore(search.keyword, SearchKey(current_project[1], search.keyword),
                   [c \in DOMAIN search.out |-> search.out[c][1]], search.results)
    /\ UNCHANGED <<envVars, tokVars, file_analysis_cache, project_combo, scan, ptask, ftask,
                   analysis, current_project, calcVars>>

NextPool ==
    \/ \E p \in PoolProjects : PoolProjectStart(p)
    \/ \E p \in PoolProjects : PoolProjectEnd(p)
    \/ \E f \in SearchFiles : PoolFileStart(f)
    \/ \E f \in SearchFiles : PoolFileEnd(f)
    \/ \E c \in DOMAIN current_conversations : PoolSearchStart(c)
    \/ \E c \in DOMAIN current_conversations : PoolSearchEnd(c)
    \/ PoolSearchReturn

SpecPool == InitPool /\ [][NextPool]_vars

\* C14: within a scan at most min(4, project_count) project tasks run at
\* once, each with at most min(2, file_count) file tasks, so that at most 8
\* files are analysed at once; within a search at most 4 matching tasks run at
\* once.
C14_BoundedParallelism ==
    LET projects == {p \in PoolProjects : ptask[1][p].pc = "collect"}
        files(p) == {f \in JsonlFiles(p) : ftask[f].pc = "running"}
        matching == IF search.pc = "matching"
                    THEN {c \in DOMAIN search.tasks : search.tasks[c] = "running"} ELSE {}
    IN  /\ Cardinality(projects) <= 4
        /\ Cardinality(projects) <= Len(projectDirs)
        /\ \A p \in PoolProjects :
              /\ Cardinality(files(p)) <= 2
              /\ Cardinality(files(p)) <= Cardinality(JsonlFiles(p))
        /\ Cardinality({f \in SearchFiles : ftask[f].pc = "running"}) <= 8
        /\ Cardinality(matching) <= 4
\* four project tasks run while a fifth waits, eight files are being analysed
\* and a ninth waits
C14_Witness ==
    /\ Cardinality({p \in PoolProjects : ptask[1][p].pc = "collect"}) = 4
    /\ \E p \in PoolProjects : ptask[1][p].pc = "queued"
    /\ Cardinality({f \in SearchFiles : ftask[f].pc = "running"}) = 8
    /\ \E f \in SearchFiles : ftask[f].pc = "queued"


\* ----------------------------------- calls of TokenCalculator (SpecTokens)
MaxTextLen == 3
\* a letter, a digit, an ideograph, a space, a full stop and an underscore
TokenChars == {"a", "7", "U+4E2D", " ", ".", "_"}
Hello == <<"h", "e", "l", "l", "o">>
TenIdeographs == [i \in 1..10 |-> "U+4E2D"]
SampleTexts == UNION {[1..k -> TokenChars] : k \in 0..MaxTextLen} \cup {Hello, TenIdeographs}
\* the encoder raises or returns 1..MaxEncoded tokens for a text that is not
\* blank
MaxEncoded == 2
EncoderOutcomes == {EncoderRaises} \cup {<<n>> : n \in 1..MaxEncoded}

notCalc ==
    <<envVars, tokVars, file_analysis_cache, projects_data, project_combo, scan, ptask, ftask,
      analysis, selVars, searchVars, precise_mode>>
\* TokenCalculator.__init__: tiktoken is loaded or it is not
InitTokens ==
    /\ precise_mode \in BOOLEAN
    /\ calc = NoCall
    /\ rootExists = TRUE
    /\ projectDirs = <<>>
    /\ fileDir = <<>>
    /\ fileMtime = <<>>
    /\ fileOk = <<>>
    /\ fileLines = <<>>
    /\ hasMsgCache = FALSE
    /\ message_token_cache = <<>>
    /\ message_token_value = EmptyDict
    /\ cache_hits = 0
    /\ cache_misses = 0
    /\ file_analysis_cache = <<>>
    /\ projects_data = <<>>
    /\ project_combo = [values |-> <<>>, sel |-> 0]
    /\ scan = [s \in ScanIds |-> NoScan]
    /\ ptask = [s \in ScanIds |-> [p \in Projects |-> NoProjectTask]]
    /\ ftask = <<>>
    /\ analysis = <<>>
    /\ current_project = <<>>
    /\ current_conversations = <<>>
    /\ filtered_conversations = <<>>
    /\ search_cache = <<>>
    /\ search_value = EmptyDict
    /\ search = NoSearch

\* the messages counted: of every type, with a string or with a list of up
\* to MaxBlocks blocks as content
MaxBlocks == 2
SampleStrings == {<<>>, <<"a">>, [i \in 1..8 |-> "a"]}
SampleBlocks ==
    {Block("text", t) : t \in SampleStrings \ {<<>>}}
        \cup {Block("image", <<>>), Block("other", <<>>), Block("nonobj", <<>>)}
SampleMessages ==
    {Line("obj", type, "str", t, <<>>, 0) :
        type \in {"summary", "user", "assistant", "system"}, t \in SampleStrings}
    \cup {Line("obj", type, "list", <<>>, blocks, 0) :
            type \in {"user", "assistant"},
            blocks \in UNION {[1..k -> SampleBlocks] : k \in 0..MaxBlocks}}

\* the call before this one was a count_tokens call in which the encoder
\* raised
EncoderJustFailed ==
    /\ calc.op = "count_tokens"
    /\ precise_mode /\ ~IsBlank(calc.text) /\ calc.enc = EncoderRaises
\* count_tokens(text): neither branch assigns precise_mode or encoder
CallCountTokens(text, enc) ==
    /\ enc = EncoderRaises \/ (precise_mode /\ ~IsBlank(text))
    /\ calc' = [op |-> "count_tokens", text |-> text, enc |-> enc,
                result |-> count_tokens_with(precise_mode, enc, text),
                after_failure |-> EncoderJustFailed]
    /\ UNCHANGED notCalc

\* _calculate_message_tokens(message_data), the texts counted by estimate
CallCalculateMessageTokens(m) ==
    /\ ~precise_mode
    /\ calc' = [op |-> "calculate_message_tokens", message |-> m,
                raised |-> ~calculate_message_tokens(m).ok,
                result |-> calculate_message_tokens(m).n]
    /\ UNCHANGED notCalc

\* the token counts priced
MaxTokenCount == 20
ModelNames == {"claude-3-5-sonnet", "claude-3-5-haiku", "claude-3-opus", "gpt"}
DefaultModel == "claude-3-5-sonnet"
\* the prices of a million tokens, in cents (lines 235-239)
Pricing(model) ==
    IF model = "claude-3-5-sonnet" THEN [input |-> 300, output |-> 1500]
    ELSE IF model = "claude-3-5-haiku" THEN [input |-> 25, output |-> 125]
    ELSE [input |-> 1500, output |-> 7500]
\* a million tokens at one cent cost this many units of 0.0001 dollar
UnitsPerCent == 100
\* one unit is the price in cents of this many tokens at one cent a million
CentTokens == 1000000 \div UnitsPerCent
\* round(x, 4) in units of 0.0001 dollar for x = n / CentTokens units: to the
\* nearest unit; when x is the double nearest to a half unit it lies just
\* above or just below the half, and `above` tells which
Round4(n, above) ==
    LET q == n \div CentTokens
        r == n % CentTokens
    IN  IF 2 * r > CentTokens \/ (2 * r = CentTokens /\ above) THEN q + 1 ELSE q
\* lines 241-252, the costs in units of 0.0001 dollar
CostEstimate(token_count, model, above) ==
    [model |-> model,
     input_cost |-> Round4(token_count * Pricing(model).input, above[1]),
     output_cost |-> Round4(token_count * Pricing(model).output, above[2]),
     total_cost |-> Round4(token_count * Pricing(model).input
                               + token_count * Pricing(model).output, above[3])]
\* get_token_cost_estimate(token_count, model)
get_token_cost_estimate(token_count, model, above) ==
    CostEstimate(token_count, IF model \in ModelNames \ {"gpt"} THEN model ELSE DefaultModel,
                 above)
CallCostEstimate(token_count, model, above) ==
    /\ calc' = [op |-> "get_token_cost_estimate", token_count |-> token_count,
                asked |-> model, result |-> get_token_cost_estimate(token_count, model, above)]
    /\ UNCHANGED notCalc

NextTokens ==
    \/ \E text \in SampleTexts, enc \in EncoderOutcomes : CallCountTokens(text, enc)
    \/ \E m \in SampleMessages : CallCalculateMessageTokens(m)
    \/ \E token_count \in 0..MaxTokenCount, model \in ModelNames, above \in [1..3 -> BOOLEAN] :
          CallCostEstimate(token_count, model, above)

SpecTokens == InitTokens /\ [][NextTokens]_vars


\* ------------------------ a file analysed again after changes (SpecStale)
MaxStaleCalls == 3
MaxStaleFiles == 1
StaleFiles == 1..MaxStaleFiles
\* what a log file may hold
EmptyListLine == Line("obj", "user", "list", <<>>, <<>>, 0)
StaleContents ==
    {<<PlainMessage(1)>>, <<PlainMessage(1), PlainMessage(2)>>, <<SummaryLine>>,
     <<PlainMessage(PreviewMax + 1)>>, <<BlocksLine, PlainMessage(1)>>,
     <<ImageFirstLine, PlainMessage(1)>>, <<EmptyListLine, PlainMessage(2)>>}
\* no call for the file yet.  read: the last call read the file; mtime: the
\* modification time the last call saw; calls: the calls made
NoStaleTask == NoFileTask @@ [read |-> FALSE, mtime |-> 0, calls |-> 0]

\* the files exist, nothing is cached.  analysis[k] is the record the
\* analysis that stored key k returned, the value the cache holds under k
InitStale ==
    /\ NoCalc
    /\ rootExists = TRUE
    /\ projectDirs = <<1>>
    /\ fileDir = [f \in StaleFiles |-> 1]
    /\ fileMtime = [f \in StaleFiles |-> 1]
    /\ fileOk = [f \in StaleFiles |-> TRUE]
    /\ fileLines \in [StaleFiles -> StaleContents]
    /\ Scanned([w |-> FreshWorld])
    /\ analysis = EmptyDict
    /\ projects_data = <<>>
    /\ project_combo = [values |-> <<>>, sel |-> 0]
    /\ scan = [s \in ScanIds |-> NoScan]
    /\ ptask = [s \in ScanIds |-> [p \in Projects |-> NoProjectTask]]
    /\ ftask = [f \in StaleFiles |-> NoStaleTask]
    /\ current_project = <<>>
    /\ current_conversations = <<>>
    /\ filtered_conversations = <<>>
    /\ search_cache = <<>>
    /\ search_value = EmptyDict
    /\ search = NoSearch

\* the call for f has returned rec; read tells whether it read the file
StaleReturns(f, rec, read) ==
    ftask' = [ftask EXCEPT ![f].pc = "returned", ![f].result = rec, ![f].read = read,
                           ![f].mtime = fileMtime[f], ![f].calls = @ + 1]
\* lines 1050-1057: r is what _perform_file_analysis gives; the record is
\* stored under the key of the file and returned
StaleMiss(f, r, w) ==
    /\ WorldBecomes(w)
    /\ analysis' = [k \in Range(w.fc) |-> IF k = FileCacheKey(f) THEN r.result ELSE analysis[k]]
    /\ StaleReturns(f, r.result, TRUE)
\* _analyze_conversation_file(file_path) called once more
AnalyzeAgain(f) ==
    /\ ftask[f].calls < MaxStaleCalls
    /\ IF Has(file_analysis_cache, FileCacheKey(f))
       THEN /\ StaleReturns(f, analysis[FileCacheKey(f)], FALSE)
            /\ UNCHANGED <<tokVars, file_analysis_cache, analysis>>
       ELSE StaleMiss(f, perform_file_analysis(World, f), analyze_conversation_file(World, f).w)
    /\ UNCHANGED <<calcVars, envVars, projects_data, project_combo, scan, ptask, selVars,
                   searchVars>>
\* the file is replaced: other lines, and another modification time, which
\* the writer may set to any value (os.utime, a copy that keeps the times)
WriteFile(f, lines, mtime) ==
    /\ lines # fileLines[f]
    /\ mtime # fileMtime[f]
    /\ fileLines' = [fileLines EXCEPT ![f] = lines]
    /\ fileMtime' = [fileMtime EXCEPT ![f] = mtime]
    /\ UNCHANGED <<calcVars, rootExists, projectDirs, fileDir, fileOk, tokVars,
                   file_analysis_cache, projects_data, project_combo, scan, ptask, ftask,
                   analysis, selVars, searchVars>>

NextStale ==
    \/ \E f \in StaleFiles : AnalyzeAgain(f)
    \/ \E f \in StaleFiles, lines \in StaleContents, mtime \in 1..MaxMtime :
          WriteFile(f, lines, mtime)

SpecStale == InitStale /\ [][NextStale]_vars


\* --------------------------------- conversations deleted (SpecDelete)
MaxDeletes == 2
DeleteKeywords == {<<"b">>, <<"c">>}
DigitChar(n) == <<"0", "1", "2", "3", "4", "5", "6", "7", "8", "9">>[n + 1]
Jsonl == <<".", "j", "s", "o", "n", "l">>
\* str(file_path): the directory of the project and the name of the file;
\* file 2 is named 1.jsonl2.jsonl, the others by their number
PathText(f) ==
    <<"d", DigitChar(SearchFileDir(f)), "/">>
        \o (IF f = 2 THEN <<"1">> \o Jsonl \o <<"2">> ELSE <<DigitChar(f)>>) \o Jsonl
\* f"{file_path}:{mtime}" for the key k of the file cache
KeyText(k) == PathText(k[1]) \o <<":", DigitChar(k[2]), ".", "0">>
\* text.startswith(prefix)
StartsWith(text, prefix) ==
    Len(text) >= Len(prefix) /\ SubSeq(text, 1, Len(prefix)) = prefix
\* lines 1739-1742: the first element of the list with the path is popped
PopPath(convs, path) ==
    IF \A i \in DOMAIN convs : convs[i].file_path # path THEN convs
    ELSE LET i == CHOOSE i \in DOMAIN convs :
                      /\ convs[i].file_path = path
                      /\ \A j \in 1..(i - 1) : convs[j].file_path # path
         IN  SubSeq(convs, 1, i - 1) \o SubSeq(convs, i + 1, Len(convs))
\* the list has an element with the path
HoldsPath(convs, path) == \E i \in DOMAIN convs : convs[i].file_path = path
\* the list shown is the list object the search cache holds under key k:
\* the results of the last search, shown at line 1597 and cached at line
\* 1515 or read from the cache at line 1426, and not replaced since
ShownFromCache(k) ==
    /\ search.pc = "shown"
    /\ k = SearchKey(search.project, search.keyword)
    /\ Has(search_cache, k)
    /\ filtered_conversations # <<>>
    /\ "matches" \in DOMAIN filtered_conversations[1]
    /\ search_value[k].results = filtered_conversations
\* the results under each key after line 1755 has popped from the list shown
ResultsAfterPop(path) ==
    [k \in Range(search_cache) |->
        IF ShownFromCache(k) THEN PopPath(search_value[k].results, path)
        ELSE search_value[k].results]
\* lines 1799-1801: the keys of the file cache that start with the path
FileKeysOfPath(path) ==
    SelectSeq(file_analysis_cache, LAMBDA k : StartsWith(KeyText(k), PathText(path)))
\* lines 1808-1815: the keys of the search cache whose results hold the path
SearchKeysOfPath(results, path) ==
    SelectSeq(search_cache, LAMBDA k : HoldsPath(results[k], path))
\* lines 1821-1833: up to 100 keys of the message cache, oldest first
CleanupBatch == 100
MsgKeysCleaned == IF hasMsgCache THEN FirstKeys(message_token_cache, CleanupBatch) ELSE <<>>
\* _cleanup_deleted_conversation_cache(file_path), results being the lists
\* the search cache holds when it is called
cleanup_deleted_conversation_cache(path, results) ==
    /\ file_analysis_cache' = DelAll(file_analysis_cache, FileKeysOfPath(path))
    /\ search_cache' = DelAll(search_cache, SearchKeysOfPath(results, path))
    /\ search_value' = [k \in Range(search_cache') |->
                           [search_value[k] EXCEPT !.results = results[k]]]
    /\ message_token_cache' = DelAll(message_token_cache, MsgKeysCleaned)
    /\ message_token_value' = [k \in Range(message_token_cache') |-> message_token_value[k]]
\* _delete_conversation with row i of the list selected and the deletion
\* confirmed: the file is removed, its record is popped from the list of
\* the current project, which is the list the index holds, and from the
\* list shown, and the caches are cleaned
DeleteConversation(i) ==
    /\ Cardinality({f \in SearchFiles : ~fileOk[f]}) < MaxDeletes
    /\ i \in DOMAIN filtered_conversations
    /\ HoldsPath(current_conversations, filtered_conversations[i].file_path)
    /\ fileOk[filtered_conversations[i].file_path]
    /\ fileOk' = [fileOk EXCEPT ![filtered_conversations[i].file_path] = FALSE]
    /\ current_conversations' =
           PopPath(current_conversations, filtered_conversations[i].file_path)
    /\ projects_data' = IndexWith(current_conversations')
    /\ filtered_conversations' =
           PopPath(filtered_conversations, filtered_conversations[i].file_path)
    /\ cleanup_deleted_conversation_cache(filtered_conversations[i].file_path,
                                          ResultsAfterPop(filtered_conversations[i].file_path))
    /\ UNCHANGED <<calcVars, rootExists, projectDirs, fileDir, fileMtime, fileLines,
                   hasMsgCache, cache_hits, cache_misses, project_combo, scan, ptask, ftask,
                   analysis, current_project, search>>

\* after the scan, the first project selected, nothing searched
InitDelete ==
    /\ SearchEnv
    /\ current_project = <<ProjectA>>
    /\ current_conversations = projects_data[1].convs
    /\ filtered_conversations = projects_data[1].convs
    /\ SearchedBefore(0)

NextDelete ==
    \/ \E p \in DOMAIN SearchProjects : SelectProject(p)
    \/ \E keyword \in DeleteKeywords : Search(keyword)
    \/ \E i \in 1..Cardinality(SearchFiles) : DeleteConversation(i)

SpecDelete == InitDelete /\ [][NextDelete]_vars

\* ------------------------- conversations counted one at a time (SpecConv)
\* the records counted in all the calls of a run
MaxCounted == 4
\* the records a conversation may hold: of each type, one of another type,
\* one with an image block and one whose count raises
ConvMessages ==
    {UserLine(<<"a">>), AssistantLine(<<>>), SummaryOf([i \in 1..8 |-> "a"]), SystemLine,
     BlocksLine, BadBlockLine}
Conversations == UNION {[1..k -> ConvMessages] : k \in 0..MaxCounted}
\* mutant: the average cut off after its first decimal
Round1_Floor(total, count, above) == (10 * total) \div count
\* round(total / count, 1) in tenths: the nearest tenth; when the quotient
\* lies halfway, the double that stands for it is the half itself, rounded
\* to the even tenth, or lies just above or just below it: `above` tells
\* which way the result goes
Round1(total, count, above) ==
    IF 2 * ((10 * total) % count) > count \/ (2 * ((10 * total) % count) = count /\ above)
    THEN (10 * total) \div count + 1
    ELSE (10 * total) \div count
\* lines 212-221: the dictionary returned, the average in tenths
Returned(r, above) ==
    [total_tokens |-> r.total_tokens, user_tokens |-> r.user_tokens,
     assistant_tokens |-> r.assistant_tokens, summary_tokens |-> r.summary_tokens,
     message_count |-> r.message_count,
     avg_tokens_per_message |->
         IF r.message_count > 0 THEN Round1(r.total_tokens, r.message_count, above) ELSE 0]
\* the call returns or raises with the loop in the state r
AnalyzeTokensEnds(msgs, r, above) ==
    /\ WorldBecomes(r.w)
    /\ calc' = [op |-> "analyze_conversation_tokens", msgs |-> msgs, raised |-> ~r.ok,
                result |-> Returned(r, above)]
\* analyze_conversation_tokens(conversation_data), the texts counted by
\* estimate
CallAnalyzeConversationTokens(msgs, above) ==
    /\ ~precise_mode
    /\ cache_hits + cache_misses + Len(msgs) <= MaxCounted
    /\ AnalyzeTokensEnds(msgs, analyze_conversation_tokens(World, msgs), above)
    /\ UNCHANGED <<envVars, projects_data, project_combo, scan, ptask, ftask, analysis,
                   selVars, searchVars, precise_mode>>

InitConv == InitTokens /\ ~precise_mode
NextConv ==
    \E msgs \in Conversations, above \in BOOLEAN : CallAnalyzeConversationTokens(msgs, above)
SpecConv == InitConv /\ [][NextConv]_vars

\* ------------------- the search thread, statement by statement (SpecRace)
MaxRaceSearches == 2
\* the keywords typed: two that match records and one that does not compile
RaceKeywords == {<<"b">>, <<"c">>, <<"(">>}
\* no search has been made.  project: the project the cache key names;
\* own: the list matched was the list of that project
NoRace ==
    [pc |-> "idle", keyword |-> <<>>, project |-> <<>>, key |-> <<>>, parallel |-> FALSE,
     found |-> <<>>, own |-> TRUE, from_cache |-> FALSE, count |-> 0, report |-> "none"]
\* self.projects_data[name], <<>> when the index has no such key
ConvsOf(name) ==
    IF \E p \in DOMAIN projects_data : projects_data[p].name = name
    THEN projects_data[CHOOSE p \in DOMAIN projects_data : projects_data[p].name = name].convs
    ELSE <<>>
\* lines 962-992 with every analysis served by the file-analysis cache: the
\* records of the files of project p that can still be read, sorted
RescanRecords(p) ==
    LET order == SelectSeq([f \in SearchFiles |-> f], LAMBDA f : fileDir[f] = p /\ fileOk[f])
    IN  SortByMtimeDesc([i \in DOMAIN order |-> analysis[order[i]][1]])
\* lines 930-937: the project tasks complete in `order`; a project is
\* stored when its record list is not empty
RECURSIVE RescanIndex(_, _)
RescanIndex(order, d) ==
    IF order = <<>> THEN d
    ELSE RescanIndex(Tail(order),
                     StoreProject(d, SearchProjects[Head(order)],
                                  RescanRecords(Head(order))))

\* _search_conversations, lines 1402-1417: the thread is started
RaceStart(keyword) ==
    /\ search.pc \in {"idle", "shown", "error"}
    /\ search.count < MaxRaceSearches
    /\ current_project # <<>>
    /\ current_conversations # <<>>
    /\ search' = [NoRace EXCEPT !.pc = "started", !.keyword = keyword,
                                !.count = search.count + 1]
    /\ UNCHANGED <<envVars, tokVars, file_analysis_cache, scanVars, ptask, ftask, analysis,
                   selVars, search_cache, search_value, calcVars>>
\* lines 1424-1431: the key is made of the project that is current now; a
\* cached result is shown (line 1597)
RaceLookup ==
    /\ search.pc = "started"
    /\ LET key == SearchKey(current_project[1], search.keyword)
       IN  IF Has(search_cache, key)
           THEN /\ search' = [search EXCEPT !.pc = "shown", !.project = current_project[1],
                                            !.key = key, !.from_cache = TRUE,
                                            !.found = search_value[key].results,
                                            !.own = search_value[key].own]
                /\ filtered_conversations' = search_value[key].results
           ELSE /\ search' = [search EXCEPT !.pc = "looked", !.project = current_project[1],
                                            !.key = key]
                /\ UNCHANGED filtered_conversations
    /\ UNCHANGED <<envVars, tokVars, file_analysis_cache, scanVars, ptask, ftask, analysis,
                   current_project, current_conversations, search_cache, search_value,
                   calcVars>>
\* lines 1436-1440: the pattern is compiled, the path is chosen by the
\* length of the list that is current now
RaceDispatch ==
    /\ search.pc = "looked"
    /\ IF ~compile(search.keyword).ok
       THEN \E in_handler \in BOOLEAN :
               search' = [search EXCEPT
                              !.pc = "error",
                              !.report = IF in_handler
                                         THEN ReportOf(compile(search.keyword).raises)
                                         ELSE "lost"]
       ELSE search' = [search EXCEPT
                           !.pc = "dispatched",
                           !.parallel = Len(current_conversations) > ParallelThreshold]
    /\ UNCHANGED <<envVars, tokVars, file_analysis_cache, scanVars, ptask, ftask, analysis,
                   selVars, search_cache, search_value, calcVars>>
\* lines 1468-1505: the records of the list that is current now are matched;
\* the parallel path collects them in the order in which the tasks complete
RaceMatched(hits) ==
    IF search.parallel
    THEN \E order \in Perms(DOMAIN hits) :
            search' = [search EXCEPT !.pc = "matched",
                                     !.found = [i \in DOMAIN hits |-> hits[order[i]]],
                                     !.own = (current_project = <<search.project>>)]
    ELSE search' = [search EXCEPT !.pc = "matched", !.found = hits,
                                  !.own = (current_project = <<search.project>>)]
RaceMatch ==
    /\ search.pc = "dispatched"
    /\ RaceMatched(Hits(current_conversations,
                        Outcomes(current_conversations, compile(search.keyword)), 1))
    /\ UNCHANGED <<envVars, tokVars, file_analysis_cache, scanVars, ptask, ftask, analysis,
                   selVars, search_cache, search_value, calcVars>>
\* line 1447: _cache_search_results(cache_key, results)
RaceStore ==
    /\ search.pc = "matched"
    /\ search_cache' = cache_search_results(search_cache, search.key)
    /\ search_value' = [k \in Range(search_cache') |->
                           IF k = search.key
                           THEN Stored(search.found, search.project, search.keyword)
                                    @@ [own |-> search.own]
                           ELSE search_value[k]]
    /\ search' = [search EXCEPT !.pc = "stored"]
    /\ UNCHANGED <<envVars, tokVars, file_analysis_cache, scanVars, ptask, ftask, analysis,
                   selVars, calcVars>>
\* lines 1452-1457: the callback _show_search_results runs (line 1597)
RaceShow ==
    /\ search.pc = "stored"
    /\ filtered_conversations' = search.found
    /\ search' = [search EXCEPT !.pc = "shown"]
    /\ UNCHANGED <<envVars, tokVars, file_analysis_cache, scanVars, ptask, ftask, analysis,
                   current_project, current_conversations, search_cache, search_value,
                   calcVars>>
\* _load_projects to _update_projects_ui_with_stats, run without
\* interruption: the index is rebuilt with the project tasks completing in
\* `order`, and its first project is selected
Rescan(order) ==
    /\ scan[1].pc = "none"
    /\ scan' = [scan EXCEPT ![1] = [pc |-> "ready", prev |-> projects_data, solo |-> TRUE,
                                    posted |-> "shown"]]
    /\ projects_data' = RescanIndex(order, <<>>)
    /\ project_combo' = [values |-> DictKeys(projects_data'), sel |-> 1]
    /\ current_project' = <<projects_data'[1].name>>
    /\ current_conversations' = projects_data'[1].convs
    /\ filtered_conversations' = projects_data'[1].convs
    /\ UNCHANGED <<envVars, tokVars, file_analysis_cache, ptask, ftask, analysis, searchVars,
                   calcVars>>
\* _on_project_select for a project of the index
RaceSelect(p) ==
    /\ p \in DOMAIN projects_data
    /\ SelectProject(p)

InitRace ==
    /\ SearchEnv
    /\ current_project = <<ProjectA>>
    /\ current_conversations = projects_data[1].convs
    /\ filtered_conversations = projects_data[1].convs
    /\ search_cache = <<>>
    /\ search_value = EmptyDict
    /\ search = NoRace

NextRace ==
    \/ \E keyword \in RaceKeywords : RaceStart(keyword)
    \/ RaceLookup
    \/ RaceDispatch
    \/ RaceMatch
    \/ RaceStore
    \/ RaceShow
    \/ \E p \in DOMAIN SearchProjects : RaceSelect(p)
    \/ FileVanishes
    \/ \E order \in Perms(DOMAIN SearchProjects) : Rescan(order)

SpecRace == InitRace /\ [][NextRace]_vars

\* ------------------------------------------------ properties of the indexer
\* the record list stored in the index for project p, <<>> if there is none
RecordsOf(p) ==
    IF \E i \in DOMAIN projects_data : projects_data[i].name = p
    THEN (CHOOSE e \in Range(projects_data) : e.name = p).convs
    ELSE <<>>
\* the task is inside the lookup/insert/evict sequence of the message cache
InMsgSection(f) ==
    ftask[f].pc \in {"m_create", "m_hit_load", "m_hit_store", "m_hit_ret", "m_miss_load",
                     "m_miss_store", "m_store", "m_len", "m_keys", "m_del"}
\* the task is inside the lookup/insert/evict sequence of the file cache
InFileSection(f) == ftask[f].pc \in {"hit", "fc_len", "fc_keys", "fc_del", "fc_store"}
\* the projects of the listing that have records, in the order of the listing
ListedWithRecords ==
    SelectSeq(projectDirs, LAMBDA p : \E f \in JsonlFiles(p) : fileOk[f])

\* C2: for every interleaving of the concurrent file-analysis tasks, once no
\* task is inside an insertion the file-analysis cache holds at most 100
\* entries and the message-token cache at most 500.
C2_CachesWithinCapacityWhenQuiet ==
    (\A f \in Files : ~FileRunning(f)) =>
        /\ Len(file_analysis_cache) <= FileCacheMax
        /\ Len(message_token_cache) <= MsgCacheMax

\* C3: at no time are two worker tasks both inside the lookup/insert/evict
\* sequence of the same cache, the lazy creation of the message-token cache
\* included.
C3_CacheSectionsExclusive ==
    \A f, g \in Files : f # g =>
        /\ ~(InMsgSection(f) /\ InMsgSection(g))
        /\ ~(InFileSection(f) /\ InFileSection(g))

\* C4: for every interleaving of the worker tasks, when the scan completes
\* every readable file of a listed project has exactly one record in the
\* list of its project.
C4_EveryReadableFileIndexed ==
    scan[1].pc = "ready" =>
        \A f \in Files : (fileOk[f] /\ fileDir[f] \in Range(projectDirs)) =>
            Cardinality({i \in DOMAIN RecordsOf(fileDir[f]) :
                            RecordsOf(fileDir[f])[i].file_path = f}) = 1

\* C5: the index changes at one point only, the completion of a scan: every
\* step that changes projects_data is the step in which a scan finishes.
C5_IndexReplacedOnlyAtCompletion ==
    [][projects_data' # projects_data =>
          \E s \in ScanIds : scan[s].pc \in Running /\ scan'[s].pc = "ready"]_vars

\* C6: when a scan that was requested with no other scan running, and after
\* which no scan was requested, has ended in failure, the index equals the
\* index that existed when the scan was requested.
C6_FailedScanKeepsIndex ==
    \A s \in ScanIds :
        (/\ scan[s].pc \in {"failed", "rejected"}
         /\ scan[s].solo
         /\ \A t \in ScanIds : t > s => scan[t].pc = "none")
        => projects_data = scan[s].prev

\* C7: at most one scan thread is running at any time.
C7_AtMostOneScanInFlight == Cardinality({s \in ScanIds : scan[s].pc \in Running}) <= 1

\* C8: under fair scheduling of the threads every scan that is started
\* eventually reaches Ready or Failed.
C8_ScanEventuallyEnds == (scan[1].pc = "start") ~> (scan[1].pc \in {"ready", "failed"})

\* C8 witness: a scan has reached Ready with records in the index although a
\* file task of it failed and returned None
C8_Witness ==
    /\ scan[1].pc = "ready"
    /\ projects_data # <<>>
    /\ \E f \in Files : ftask[f].pc = "collected" /\ ftask[f].result = <<>>

\* C9: for every order in which the file tasks of a project complete, the
\* record list the project task returns is sorted by modification time
\* descending.
C9_RecordsSortedByMtimeDesc ==
    \A p \in Projects : ptask[1][p].pc \in {"done", "collected"} =>
        \A i \in 1..(Len(ptask[1][p].convs) - 1) :
            ptask[1][p].convs[i].modified_time >= ptask[1][p].convs[i + 1].modified_time

\* C9 witness: a project task has returned two records that arrived with the
\* older one first, and the sort has put the newer one first
C9_Witness ==
    \E p \in Projects :
        /\ ptask[1][p].pc = "done"
        /\ Len(ptask[1][p].arrived) = 2
        /\ ptask[1][p].arrived[1].modified_time < ptask[1][p].arrived[2].modified_time
        /\ ptask[1][p].convs # ptask[1][p].arrived

\* C10: the assembled index does not depend on the order in which the project
\* tasks complete: after a single scan the projects are listed in the order
\* of the directory listing and the first of them is selected.
C10_IndexIndependentOfCompletionOrder ==
    (/\ scan[1].pc = "ready" /\ scan[1].posted = "shown"
     /\ scan[2].pc = "none"
     /\ ListedWithRecords # <<>>)
    => /\ DictKeys(projects_data) = ListedWithRecords
       /\ project_combo.values = ListedWithRecords
       /\ project_combo.sel = ListedWithRecords[1]

\* ------------------------------------------------- properties of the search
\* the pattern matches the preview text or the summary text of the record
FieldMatches(conv, pat) ==
    \/ conv.first_user_msg # <<>> /\ pattern_search(pat, conv.first_user_msg[1])
    \/ conv.summary # <<>> /\ pattern_search(pat, conv.summary[1])
\* the pattern matches the searchable text of a line of the record's file
\* that json.loads accepts
FileMatches(conv, pat) ==
    /\ fileOk[conv.file_path]
    /\ \E i \in DOMAIN fileLines[conv.file_path] :
          LET l == fileLines[conv.file_path][i]
          IN  l.kind \in {"obj", "nonobj"} /\ pattern_search(pat, extract_searchable_text(l))
\* the record is in the result list
InResults(results, conv) == \E j \in DOMAIN results : results[j].file_path = conv.file_path

\* C15: a search that computes its result returns exactly the records of
\* the current project that have a match: a record is in the result if and
\* only if the pattern matches its preview text, its summary text or the
\* searchable text of a parsed line of its file.
C15_ResultIsExactlyTheMatchingRecords ==
    [][(search' # search /\ search'.pc = "shown" /\ ~search'.from_cache) =>
          \A i \in DOMAIN current_conversations :
             LET conv == current_conversations[i]
                 pat == compile(search'.keyword)
             IN  InResults(search'.results, conv) <=>
                    (FieldMatches(conv, pat) \/ FileMatches(conv, pat))]_vars

\* C16: when the pattern matches the preview or the summary of a record, the
\* matching of that record returns the single short-circuit entry (line 0,
\* field "preview", flag set) and does not open the file; every match of a
\* full scan has a line number of at least 1 and the flag clear.
C16_QuickMatchWithoutOpeningFile ==
    (search.pc = "shown" /\ ~search.from_cache) =>
        \A i \in DOMAIN search.trace :
           LET conv == RecordsOf(search.project)[i]
               out == search.trace[i]
           IN  /\ FieldMatches(conv, compile(search.keyword)) =>
                     (out.matches = <<QuickMatch(conv)>> /\ ~out.opened)
               /\ out.opened =>
                     \A j \in DOMAIN out.matches :
                        out.matches[j].line_number >= 1 /\ ~out.matches[j].preview

\* C17: the match list of a record never has more than 10 entries, and a
\* scan that collects a 10th match reads no line after the line of that
\* match.
C17_AtMostTenMatchesPerFile ==
    /\ \A j \in DOMAIN search.results : Len(search.results[j].matches) <= 10
    /\ \A i \in DOMAIN search.trace :
          /\ Len(search.trace[i].matches) <= 10
          /\ (search.trace[i].opened /\ Len(search.trace[i].matches) = 10) =>
                search.trace[i].examined = search.trace[i].matches[10].line_number
\* a scan has stopped at its 10th match with lines of the file left unread
C17_Witness ==
    /\ search.pc = "shown"
    /\ \E i \in DOMAIN search.trace :
          /\ Len(search.trace[i].matches) = 10
          /\ search.trace[i].examined < Len(fileLines[RecordsOf(search.project)[i].file_path])

\* C18 as stated: a search for a project and a keyword whose result was
\* stored earlier in the session is served from the cache: the pattern is not
\* compiled, no record is matched and no file is opened.
C18_RepeatedSearchServedFromCache ==
    search.repeated => (search.from_cache /\ ~search.compiled /\ search.trace = <<>>)
\* C18 amended: a search for a project and a keyword whose result was stored
\* earlier is served from the cache, without compiling, matching or opening a
\* file, as long as fewer than 50 results of other searches have been stored
\* since; this holds also when the stored result is the empty list.
C18_RepeatedSearchServedUntilEvicted ==
    (search.repeated /\ search.age < SearchCacheMax) =>
        /\ search.from_cache /\ ~search.compiled /\ search.trace = <<>>
        /\ search.results = search_value[SearchKey(search.project, search.keyword)].results
\* a repeated search is served an empty result from the cache
C18_Witness ==
    /\ search.repeated
    /\ search.age < SearchCacheMax
    /\ search.from_cache
    /\ search.results = <<>>

\* C19: the search cache never holds more than 50 entries; a store into a
\* cache of 50 entries removes the oldest entry only, keeps the others in
\* their order with their results, and puts the new entry last.
C19_SearchCacheStrictFifo ==
    [][/\ Len(search_cache') <= 50
       /\ search_cache' # search_cache =>
             LET kept == IF Len(search_cache) >= 50 THEN Tail(search_cache) ELSE search_cache
             IN  /\ Len(search_cache') = Len(kept) + 1
                 /\ SubSeq(search_cache', 1, Len(kept)) = kept
                 /\ \A i \in DOMAIN kept : search_value'[kept[i]] = search_value[kept[i]]]_vars
\* a store into a full cache has removed the oldest entry and no other
C19_Witness ==
    /\ search.pc = "shown"
    /\ ~search.from_cache
    /\ Len(search_cache) = 50
    /\ ~Has(search_cache, SearchKey(<<"o">>, OldKeyword(1)))
    /\ Has(search_cache, SearchKey(<<"o">>, OldKeyword(2)))

\* C20: a result served from the search cache was stored by a search for
\* the same project and the same keyword.
C20_CacheKeyedByProjectAndKeyword ==
    search.from_cache => search.source = <<search.project, search.keyword>>


\* C21: a search whose keyword does not compile ends with the report of an
\* invalid expression, which is not the report of a failed search, with the
\* progress bar hidden and with the search cache and the list shown as they
\* were
C21_InvalidPatternReportedAsSuch ==
    [][(search'.count = search.count + 1 /\ compile_raises(search'.keyword) # "none") =>
           /\ search'.pc = "error"
           /\ search'.report = "invalid expression"
           /\ search'.report # ReportOf("OverflowError")
           /\ ~search'.progress
           /\ UNCHANGED <<search_cache, search_value, filtered_conversations>>]_vars


\* C22: a search, sequential or parallel, served from the cache or not,
\* leaves the index as it was: the same records in the same order with the
\* same fields, none of them holding a match list; the match lists are in
\* the records of the result
C22_SearchLeavesIndexUnchanged ==
    [][search'.count = search.count + 1 =>
           /\ projects_data' = projects_data
           /\ current_conversations' = current_conversations
           /\ \A p \in DOMAIN projects_data' : \A i \in DOMAIN projects_data'[p].convs :
                  "matches" \notin DOMAIN projects_data'[p].convs[i]
           /\ \A i \in DOMAIN search'.results :
                  "matches" \in DOMAIN search'.results[i]]_vars
\* C22 witness: a parallel search has matched records of the current
\* project and shown them
C22_Witness ==
    /\ search.pc = "shown"
    /\ ~search.from_cache
    /\ Len(current_conversations) > ParallelThreshold
    /\ Len(search.results) > 1
    /\ filtered_conversations = search.results


\* ----------------------------------------- properties of the token counts
\* C23: without the encoder, or when the encoder raises, count_tokens
\* returns 0 for an empty or blank text and a whole number of at least 1 for
\* every other text
C23_ZeroForBlankElseAtLeastOne ==
    (calc.op = "count_tokens" /\ (~precise_mode \/ calc.enc = EncoderRaises)) =>
        /\ calc.result \in Nat
        /\ IsBlank(calc.text) => calc.result = 0
        /\ ~IsBlank(calc.text) => calc.result >= 1
\* C23 witness: the encoder has raised for a text of one letter, whose
\* weighted total is a quarter, and the count is 1
C23_Witness ==
    /\ calc.op = "count_tokens"
    /\ precise_mode
    /\ calc.enc = EncoderRaises
    /\ calc.text = <<" ", "a">>
    /\ calc.result = 1


\* C24: in estimate mode the count of a text that, trimmed, holds c
\* ideographs, l letters, d digits and o other characters, all of them
\* spaces and punctuation, is max(1, floor((36c + 5l + 10d + 4o) / 20)); it
\* is 1 for "hello" and 18 for ten ideographs
C24_EstimateIsWeightedSum ==
    (calc.op = "count_tokens" /\ ~precise_mode /\ ~IsBlank(calc.text)) =>
        LET t == StripChars(calc.text, Spaces)
            c == CountIn(t, Ideographs)
            l == CountIn(t, Letters)
            d == CountIn(t, Digits)
            o == Len(t) - c - l - d
        IN  /\ calc.result = Max(1, (36 * c + 5 * l + 10 * d + 4 * o) \div 20)
            /\ calc.text = Hello => calc.result = 1
            /\ calc.text = TenIdeographs => calc.result = 18


\* what the blocks of a content list add up to: the tokens of a text block,
\* 85 for an image block, nothing for any other block
RECURSIVE BlockSum(_)
BlockSum(blocks) ==
    IF blocks = <<>> THEN 0
    ELSE BlockSum(Tail(blocks))
             + (IF Head(blocks).btype = "text" THEN count_tokens(Head(blocks).text)
                ELSE IF Head(blocks).btype = "image" THEN 85
                ELSE 0)
\* C25: the count of a message is the tokens of its summary plus 10 for a
\* summary, the tokens of its string content, or of its text blocks with 85
\* for each image block and 0 for each other block, plus 10 for a user or
\* assistant message, and 10 for a message of any other type
C25_MessageCountFormula ==
    calc.op = "calculate_message_tokens" =>
        /\ ~calc.raised
        /\ calc.result =
              IF calc.message.type = "summary" THEN count_tokens(calc.message.text) + 10
              ELSE IF calc.message.type \notin {"user", "assistant"} THEN 10
              ELSE IF calc.message.shape = "str" THEN count_tokens(calc.message.text) + 10
              ELSE BlockSum(calc.message.blocks) + 10


\* C26: through the calls of count_message_tokens made by the worker tasks
\* of a scan, in any interleaving, neither the hit counter nor the miss
\* counter ever takes a value below one it held before
C26_CountersNeverDecrease ==
    [][cache_hits' >= cache_hits /\ cache_misses' >= cache_misses]_vars


\* -------------------------------------- properties of the analysis cache
\* C27: a call of _analyze_conversation_file returns a cached record only
\* when the modification time of the file is the one the record was stored
\* under, and the first call after the modification time has changed reads
\* the file and returns the record built from what the file holds now
C27_NoStaleRecordAfterChange ==
    [][\A f \in StaleFiles :
          ftask'[f].calls = ftask[f].calls + 1 =>
              /\ ~ftask'[f].read => ftask'[f].result[1].modified_time = fileMtime[f]
              /\ (ftask[f].calls > 0 /\ fileMtime[f] # ftask[f].mtime) =>
                     /\ ftask'[f].read
                     /\ ftask'[f].result = perform_file_analysis(World, f).result]_vars


\* C28: in every estimate get_token_cost_estimate returns, for every token
\* count and model name, the total cost is the input cost plus the output
\* cost, the three taken in units of 0.0001 dollar
C28_TotalIsInputPlusOutput ==
    calc.op = "get_token_cost_estimate" =>
        calc.result.total_cost = calc.result.input_cost + calc.result.output_cost


\* ------------------------------------------------ properties of deletion
\* the lists of the search cache that hold a record of the path
CachedWith(values, path) == {k \in DOMAIN values : HoldsPath(values[k].results, path)}
\* C29: when _delete_conversation has removed the file of path F, no record
\* of F is left in the index, in the list shown, under a key of the file
\* cache or in a cached search result, and the records of the index, the
\* keys of the file cache and the cached results of the other files are all
\* still there
C29_DeleteRemovesTheFileOnly ==
    [][\A F \in SearchFiles :
          (fileOk[F] /\ ~fileOk'[F]) =>
              /\ \A p \in DOMAIN projects_data' : ~HoldsPath(projects_data'[p].convs, F)
              /\ ~HoldsPath(filtered_conversations', F)
              /\ \A k \in Range(file_analysis_cache') : k[1] # F
              /\ CachedWith(search_value', F) = {}
              /\ \A p \in DOMAIN projects_data :
                     projects_data'[p].convs =
                         SelectSeq(projects_data[p].convs, LAMBDA c : c.file_path # F)
              /\ \A k \in Range(file_analysis_cache) :
                     k[1] # F => Has(file_analysis_cache', k)
              /\ \A k \in Range(search_cache) \ CachedWith(search_value, F) :
                     Has(search_cache', k) /\ search_value'[k] = search_value[k]]_vars


\* ------------------------------------------------ properties of the preview
\* C30: the preview of the first user message that a record holds is at
\* most 100 characters long
C30_PreviewAtMostHundred ==
    \A f \in StaleFiles :
        (ftask[f].pc = "returned" /\ ftask[f].result # <<>>) =>
            \/ ftask[f].result[1].first_user_msg = <<>>
            \/ Len(ftask[f].result[1].first_user_msg[1]) <= 100

\* ------------------------------------------ properties of the search dispatch
\* the two lists hold the same records, each once
SameRecords(a, b) == Range(a) = Range(b) /\ Len(a) = Len(b) /\ Cardinality(Range(a)) = Len(a)
\* _search_conversations_sequential over the records convs
Sequential(convs, keyword) == Hits(convs, Outcomes(convs, compile(keyword)), 1)
\* C31: the result the parallel path returns for a project of more than 5
\* records holds the same records, each with the same match list, as the
\* sequential matching of the same records, whatever the order in which the
\* tasks of the pool complete.
C31_ParallelSameAsSequential ==
    (search.pc = "shown" /\ ~search.from_cache
        /\ Len(current_conversations) > ParallelThreshold) =>
        SameRecords(search.results, Sequential(current_conversations, search.keyword))
\* a parallel search has returned two or more records in an order that is
\* not the order of the list, and left out a record without a match
C31_Witness ==
    /\ search.pc = "shown" /\ ~search.from_cache
    /\ Len(current_conversations) > ParallelThreshold
    /\ Len(search.results) >= 2
    /\ Len(search.results) < Len(current_conversations)
    /\ search.results # Sequential(current_conversations, search.keyword)

\* ------------------------------------------ properties of the batch eviction
\* a file task deletes a key of the file-analysis cache (line 1143)
FileKeyDeleted ==
    \E f \in Files :
        /\ ftask[f].pc = "fc_del"
        /\ ftask'[f] # ftask[f]
        /\ Len(file_analysis_cache') < Len(file_analysis_cache)
\* a file task deletes a key of the message cache (line 132)
MsgKeyDeleted ==
    \E f \in Files :
        /\ ftask[f].pc = "m_del"
        /\ ftask'[f] # ftask[f]
        /\ Len(message_token_cache') < Len(message_token_cache)
\* C32: an eviction removes the oldest entries, 100 of the message cache once
\* an insertion has brought it to 501 entries and 20 of the file-analysis
\* cache when an insertion finds it holding 100, and nothing otherwise: a key
\* is deleted only as one of the first 100 keys leaving a cache of 501, or of
\* the first 20 leaving a cache of 100, and it is the oldest key at that time.
C32_BatchEvictionOnlyOnOverflow ==
    [][/\ FileKeyDeleted =>
            /\ Len(file_analysis_cache) > FileCacheMax - FileEvictBatch
            /\ file_analysis_cache' = Tail(file_analysis_cache)
       /\ MsgKeyDeleted =>
            /\ Len(message_token_cache) > MsgCacheMax + 1 - MsgEvictBatch
            /\ message_token_cache' = Tail(message_token_cache)]_vars

\* --------------------------------- properties of the conversation totals
\* the totals of the dictionary d returned for msgs: the total the sum of
\* the counts, the three sub-totals within it and adding up to it exactly
\* when every record is a user, assistant or summary record, and the count
\* the number of records
TotalsOf(d, msgs) ==
    /\ d.total_tokens = FreshTotal(msgs)
    /\ d.user_tokens + d.assistant_tokens + d.summary_tokens <= d.total_tokens
    /\ (d.user_tokens + d.assistant_tokens + d.summary_tokens = d.total_tokens)
          <=> (\A i \in DOMAIN msgs : msgs[i].type \in {"user", "assistant", "summary"})
    /\ d.message_count = Len(msgs)
\* the distance between n tenths times count and the total
TenthsOff(d) ==
    IF d.avg_tokens_per_message * d.message_count >= 10 * d.total_tokens
    THEN d.avg_tokens_per_message * d.message_count - 10 * d.total_tokens
    ELSE 10 * d.total_tokens - d.avg_tokens_per_message * d.message_count
\* C33 as stated: the dictionary analyze_conversation_tokens returns has the
\* totals above, and its average is total_tokens / message_count, 0 for no
\* records.
C33_TotalsAndExactAverage ==
    (calc.op = "analyze_conversation_tokens" /\ ~calc.raised) =>
        /\ TotalsOf(calc.result, calc.msgs)
        /\ IF calc.msgs = <<>> THEN calc.result.avg_tokens_per_message = 0
           ELSE TenthsOff(calc.result) = 0
\* C33 amended: the dictionary analyze_conversation_tokens returns has the
\* totals above, and its average is total_tokens / message_count rounded to
\* one decimal place (within half a tenth of the quotient), 0 for no records.
C33_TotalsAndRoundedAverage ==
    (calc.op = "analyze_conversation_tokens" /\ ~calc.raised) =>
        /\ TotalsOf(calc.result, calc.msgs)
        /\ IF calc.msgs = <<>> THEN calc.result.avg_tokens_per_message = 0
           ELSE 2 * TenthsOff(calc.result) <= calc.result.message_count
\* a conversation of three records, one of them of another type and one
\* counted from the message cache, whose average is not a whole number of
\* tenths and was rounded up
C33_Witness ==
    /\ calc.op = "analyze_conversation_tokens" /\ ~calc.raised
    /\ Len(calc.msgs) = 3
    /\ SystemLine \in Range(calc.msgs)
    /\ cache_hits > 0
    /\ calc.result.avg_tokens_per_message * 3 > 10 * calc.result.total_tokens

\* ----------------------------------- properties of the encoder's failures
\* C34: when the encoder raises for a text, that call of count_tokens
\* returns the estimate of the trimmed text, a whole number, and leaves
\* precise_mode as it was; a call in which the encoder returns n tokens
\* returns n, also when it follows a call in which the encoder raised.
C34_EncoderFailureFallsBackForThatCall ==
    [][(calc'.op = "count_tokens" /\ precise_mode /\ ~IsBlank(calc'.text)) =>
          /\ precise_mode'
          /\ calc'.result \in Nat
          /\ calc'.enc = EncoderRaises =>
                calc'.result = estimate_tokens(StripChars(calc'.text, Spaces))
          /\ calc'.enc # EncoderRaises => calc'.result = calc'.enc[1]]_vars
\* the encoder raised in one call, which returned the estimate 1, and
\* returns two tokens in the next, which returns 2
C34_Witness ==
    /\ calc.op = "count_tokens"
    /\ precise_mode
    /\ calc.after_failure
    /\ calc.enc = <<2>>
    /\ calc.result = 2

\* ------------------------------------- properties of the preview's source
\* the preview that the first user record of the lines gives, <<>> when it
\* gives none or when no line is a user record
FirstUserPreview(lines) ==
    LET users == {i \in DOMAIN lines : lines[i].kind = "obj" /\ lines[i].type = "user"}
    IN  IF users = {} THEN <<>>
        ELSE PreviewOf(lines[CHOOSE i \in users : \A j \in users : i <= j])
\* C35: the preview of the record that an analysis builds from a file is
\* the preview of the first user record of the file in line order, whatever
\* the shape of its content: no later user record changes it.
C35_PreviewFromFirstUserRecord ==
    [][\A f \in StaleFiles :
          (ftask'[f].calls = ftask[f].calls + 1 /\ ftask'[f].read /\ ftask'[f].result # <<>>) =>
              ftask'[f].result[1].first_user_msg = FirstUserPreview(fileLines[f])]_vars

\* ------------------------------- properties of the search cache's entries
\* the search thread matches the records of the list that is current
MatchStep == search.pc = "dispatched" /\ search'.pc = "matched"
\* C36: the result the search thread computes, and then stores under the key
\* of project P and keyword k, is the result of matching k against the
\* records of P, whatever project is selected while the thread runs
C36_EntryMatchesItsProject ==
    [][MatchStep =>
          SameRecords(search'.found, Sequential(ConvsOf(search.project), search.keyword))]_vars

\* the thread finds the key in the search cache and returns its entry
ServedFromCache == search.pc = "started" /\ search'.pc = "shown" /\ search'.from_cache
\* the record r of a result without the match list attached to its copy
WithoutMatches(r) == [k \in DOMAIN r \ {"matches"} |-> r[k]]
\* C37: every record of a result served from the search cache, the entry
\* having been computed from the records of its own project, is a copy of a
\* record the index holds for that project now, also after a rescan has
\* replaced the index
C37_CachedResultOfCurrentIndex ==
    [][(ServedFromCache /\ search'.own) =>
          \A i \in DOMAIN search'.found :
              WithoutMatches(search'.found[i]) \in Range(ConvsOf(search'.project))]_vars

\* ------------------------------------ properties of the order of a result
\* the place in the list convs of the record of the log file of r
PlaceIn(convs, r) == CHOOSE i \in DOMAIN convs : convs[i].file_path = r.file_path
\* C38: a result computed by a search lists the matching records in the
\* order in which the list of the project holds them, the newest first,
\* whatever the order in which the tasks of the parallel path complete
C38_ResultInListOrder ==
    (search.pc = "shown" /\ ~search.from_cache) =>
        \A i, j \in DOMAIN search.results :
            i < j => PlaceIn(current_conversations, search.results[i])
                         < PlaceIn(current_conversations, search.results[j])

\* -------------------------------- properties of the two message counts
\* the lines of the file that are parsed as records of a type other than
\* user and assistant
OtherRecords(lines) ==
    {i \in DOMAIN lines : lines[i].kind = "obj" /\ lines[i].type \notin {"user", "assistant"}}
\* C39: in every record the analysis of a file produced, message_count is
\* at most token_analysis.message_count, and the two are equal exactly when
\* the file holds no summary record and no record of another type
C39_MessageCountAtMostParsed ==
    \A f \in AnalyzeFiles : analysis[f] # <<>> =>
        /\ analysis[f][1].message_count <= analysis[f][1].token_analysis.message_count
        /\ (analysis[f][1].message_count = analysis[f][1].token_analysis.message_count)
               <=> (OtherRecords(fileLines[f]) = {})
\* the analyses have produced a record of a file with a summary, a record of
\* a file with a record of another type, both with the smaller message_count,
\* and a record of a file of messages only, with equal counts
C39_Witness ==
    \E f, g, h \in AnalyzeFiles :
        /\ analysis[f] # <<>> /\ analysis[g] # <<>> /\ analysis[h] # <<>>
        /\ ftask[f].pc = "collected" /\ ftask[g].pc = "collected" /\ ftask[h].pc = "collected"
        /\ SummaryLine \in Range(fileLines[f])
        /\ analysis[f][1].message_count < analysis[f][1].token_analysis.message_count
        /\ SystemLine \in Range(fileLines[g])
        /\ analysis[g][1].message_count < analysis[g][1].token_analysis.message_count
        /\ OtherRecords(fileLines[h]) = {}
        /\ analysis[h][1].message_count = analysis[h][1].token_analysis.message_count
        /\ analysis[h][1].message_count > 0

\* ------------------------------------ properties of the keys of the index
\* project p is a key of the index
IsKey(p) == \E i \in DOMAIN projects_data : projects_data[i].name = p
\* a file task of project p has returned a record
GaveRecord(p) == \E f \in JsonlFiles(p) : ftask[f].result # <<>>
\* C40: when the scan has completed, a project directory is a key of the
\* index if and only if one of its log files at least produced a record,
\* and no key of the index holds an empty record list
C40_KeyIffRecord ==
    scan[1].pc = "ready" =>
        /\ \A p \in Projects : IsKey(p) <=> (p \in Range(projectDirs) /\ GaveRecord(p))
        /\ \A i \in DOMAIN projects_data : projects_data[i].convs # <<>>
\* the scan has completed over two project directories: one is a key of the
\* index, the other, whose only log file gave no record, is not
C40_Witness ==
    /\ scan[1].pc = "ready"
    /\ Len(projectDirs) = 2
    /\ \E p, q \in Range(projectDirs) :
          /\ IsKey(p) /\ GaveRecord(p)
          /\ ~IsKey(q) /\ ptask[1][q].pc = "collected" /\ ptask[1][q].convs = <<>>
          /\ JsonlFiles(q) # {}

====
